---- MODULE Spec2Model ----
(***************************************************************************)
(* Model of lepton's byte stream (src/src/iostream.rs): the shared         *)
(* IoStream (Mutex<StreamBuffer> + Condvar), the reader-side InputStream   *)
(* with its pre-load and retention buffers, the writer-side OutputStream,  *)
(* and the finalization of JpegDecoder::decode that drains the stream      *)
(* (src/src/jpeg_decoder/decoder.rs, lines 85-94).                         *)
(*                                                                         *)
(* Bytes accepted by write are numbered 1, 2, 3, ... in write order, so    *)
(* that every accepted byte is distinguishable; 0 is the fill value of a   *)
(* freshly allocated or resized buffer.  A Rust panic is the result        *)
(* "panic"; a panic raised while the MutexGuard is held poisons the mutex, *)
(* after which every lock().unwrap() panics.                               *)
(***************************************************************************)
EXTENDS Integers, Sequences, FiniteSets

\* ------------------------------------------------------------- bounds
\* number of bytes the writer may get accepted in one run
MaxWritten == 2
\* largest pre_load_len handed to the iostream factory
MaxPreLoad == 2
\* largest buffer / length argument of a reader call
MaxBuf == 2

VARIABLES
    \* StreamBuffer (behind IoStream.data) and the mutex / deque state
    data, target_len, eof_written, aborted, reader_closed,
    poisoned,       \* the Mutex is poisoned (a thread panicked holding it)
    front_moved,    \* an element was removed: the VecDeque's ring may wrap
    \* InputStream
    pl_data, write_offset, read_offset, retained_buffer, processed_len,
    \* the two threads
    r_pc, r_call, w_pc,
    notified,       \* threads woken by Condvar::notify_one, not yet running
    \* JpegDecoder::decode finalization
    grb, flush_len,
    \* history
    nw,             \* number of bytes accepted by write so far
    read_out,       \* bytes returned by successful read / read_byte calls
    skipped,        \* bytes dropped by successful consume calls
    recovered,      \* bytes returned by take_unread_data
    kept,           \* bytes consumed with keep = true since the last clear
    consumed_cnt,   \* bytes consumed by read / consume since the last reset
    peeked,         \* bytes a successful peek / peek_byte returned and consumed
    reset_base,     \* bytes gone from the stream at the last reset
    tail,           \* the unconsumed bytes when decode aborted the stream
    ev,             \* the operation that produced the current state
    \* JpegDecoder (decode / decode_internal / decode_scan)
    d_pc, header_only, start_byte, frame, scans, format, previous_marker,
    n_scan_processed, mcu_y, height, result,
    seen,           \* the markers dispatched so far, then "EOF" if the stream ended
                    \* or "FF00" if read_marker met a stuffed byte
    eof_at,         \* the block (component, y, x) in which the stream ended
    pushes,         \* every ThreadHandoffExt pushed on format.handoff, in order
    \* JpegDecoder::decode_scan, MCU by MCU
    s_pc, restart_interval, frame_size_in_mcu, components, mcu_x,
    n_mcu_left_until_restart, expected_rst_num, eob_run, dc_predictors, s_result,
    bits,           \* whether the Huffman decoder holds buffered bits (0: none)
    decoded,        \* the blocks decoded so far, as (scan component, y, x)
    rst_reads,      \* the calls of read_rst so far
    \* ThreadHandoffExt::serialize on the list a decode recorded
    h_pc,           \* "none", "collect" (rows still being decoded), "done"
    h_row,          \* what one MCU row adds: bytes read, and the overhang of its top
    handoffs,       \* the list of ThreadHandoffExt
    serialized,     \* the bytes returned by serialize
    \* decode_block (the free function), the DC coefficient of sequential blocks
    b_pc,           \* "none", "block" (before a block), "ret" (decode_block failed)
    successive_approximation_low,
    dc_predictor,   \* *dc_predictor, an i16
    coefficients_0, \* coefficients[0], an i16
    dc_value,       \* the category returned by huffman.decode for the last block
    dc_diff,        \* the difference returned by receive_extend for the last block
    n_blocks,       \* blocks decoded
    b_result,
    \* the SOS arm in PGE mode
    pge_from,       \* the start of the slice of the retained data taken at the last SOS
    \* the tables of the decoder and the scan they are verified for
    dc_huffman_tables, ac_huffman_tables, quantization_tables,  \* TRUE: Some(table)
    is_mjpeg,
    mjpeg_seen,     \* an APP0 segment has identified the stream as MJPEG
    scan_info,      \* the ScanInfo of the scan being decoded
    \* JpegStreamDecoder and the decoder thread it spawned
    decoder_handle, \* "Some" or "None"
    decoder_thread, \* "none", "running", "finalizing", then its end: "Ok", "Err", "panicked"
    drv_pc,         \* "none", "idle", "join" (inside JoinHandle::join), "flushed", "panicked"
    drv_call,       \* the call that is inside finish
    joins,          \* the calls of JoinHandle::join that returned
    n_calls         \* the calls of decode and flush so far

streamVars == <<data, target_len, eof_written, aborted, reader_closed, poisoned, front_moved>>
viewVars == <<pl_data, write_offset, read_offset, retained_buffer, processed_len>>
histVars == <<nw, read_out, skipped, recovered, kept, consumed_cnt, peeked, reset_base,
              tail>>
decVars == <<d_pc, header_only, start_byte, frame, scans, format, previous_marker,
             n_scan_processed, mcu_y, height, result, seen, eof_at, pushes>>
scanVars == <<s_pc, restart_interval, frame_size_in_mcu, components, mcu_x,
              n_mcu_left_until_restart, expected_rst_num, eob_run, dc_predictors, s_result,
              bits, decoded, rst_reads>>
handVars == <<h_pc, h_row, handoffs, serialized>>
dcVars == <<b_pc, successive_approximation_low, dc_predictor, coefficients_0, dc_value,
            dc_diff, n_blocks, b_result>>
tabVars == <<dc_huffman_tables, ac_huffman_tables, quantization_tables, is_mjpeg, mjpeg_seen,
             scan_info>>
drvVars == <<decoder_handle, decoder_thread, drv_pc, drv_call, joins, n_calls>>
auxVars == <<pge_from, tabVars, drvVars>>
unitVars == <<scanVars, handVars, dcVars, auxVars>>
vars == <<streamVars, viewVars, r_pc, r_call, w_pc, notified, grb, flush_len, histVars, ev,
          decVars, unitVars>>

\* ------------------------------------------------------------ helpers
Min(a, b) == IF a <= b THEN a ELSE b

Take(s, n) == SubSeq(s, 1, n)

Drop(s, n) == SubSeq(s, n + 1, Len(s))

Zeros(n) == [i \in 1..n |-> 0]

Ev(op, res, val, arg) == [op |-> op, res |-> res, val |-> val, arg |-> arg, len |-> 0]

NoCall ==
    [kind |-> "none", op |-> "none", n |-> 0, keep |-> FALSE, consume |-> FALSE,
     buflen |-> 0, min_len |-> 0, buf |-> <<>>, p |-> 0,
     old_w |-> 0, old_r |-> 0, old_ret |-> 0, fin |-> FALSE]

\* ------------------------------------------------------------- Buffer
capacity == Len(pl_data)

data_len == write_offset - read_offset

data_slice(len) == SubSeq(pl_data, read_offset + 1, read_offset + len)

\* Buffer::consume: the offsets <<write_offset, read_offset>> afterwards
Buffer_consume(len) ==
    IF len = data_len THEN <<0, 0>> ELSE <<write_offset, read_offset + len>>

\* ------------------------------------------------------- StreamBuffer
validate_for_read(require_active) ==
    IF reader_closed THEN "StreamClosed"
    ELSE IF (data = <<>>) \/ require_active
         THEN IF aborted THEN "UnexpectedSigAbort"
              ELSE IF eof_written THEN "UnexpectedEof" ELSE "Ok"
         ELSE "Ok"

validate_for_write ==
    IF aborted THEN "ReaderAborted"
    ELSE IF eof_written THEN "EofWritten" ELSE "Ok"

\* VecDeque::as_slices: the possible lengths of the first slice.  A deque
\* from which nothing was ever removed starts at slot 0 and is contiguous;
\* afterwards its head (and, clear being drain(..), its tail when empty) may
\* sit anywhere in the ring, so the elements may be split at any point.
FirstSliceLens ==
    IF front_moved /\ Len(data) >= 2 THEN 1..Len(data) ELSE {Len(data)}

\* StreamBuffer::read: read_len, and whether clone_from_slice panics because
\* the destination (the whole of buf) and the source differ in length
read_len_of(buflen) == Min(buflen, Len(data))

read_panics(buflen, first_slice_len) ==
    /\ read_len_of(buflen) <= first_slice_len
    /\ read_len_of(buflen) # buflen

\* StreamBuffer::consume: the queue and the head flag afterwards
consumed_data(len) == IF len < Len(data) THEN Drop(data, len) ELSE <<>>

consumed_front(len) == front_moved \/ (len > 0 /\ data # <<>>)

\* ------------------------------------------------------------ Condvar
Waiters ==
    (IF r_pc = "wait" THEN {"reader"} ELSE {})
        \cup (IF w_pc = "wait_close" THEN {"writer"} ELSE {})

\* Condvar::notify_one: the possible values of notified afterwards
notify_one ==
    IF Waiters \ notified = {} THEN {notified}
    ELSE {notified \cup {t} : t \in Waiters \ notified}


\* ------------------------------------------------------------ reader
IsReadOp(op) == op \in {"read", "read_byte", "fin_read", "io_read"}

IsPeekOp(op) == op \in {"peek", "peek_byte", "io_peek"}

IsConsumeOp(op) == op \in {"consume", "io_consume"}

IsRawKind(kind) == kind \in {"io_read", "io_consume"}

\* The reader's call c returns res (Ok with the bytes out it hands over or
\* drops, an InputError, or a panic).  decode's finalization unwraps the
\* result of its read, so an error there is a panic of the decoder thread.
ReaderReturn(c, res, val, out) ==
    /\ r_pc' = IF res = "panic" THEN "panicked"
               ELSE IF c.fin THEN (IF res = "Ok" THEN "fin_close" ELSE "panicked")
               ELSE "run"
    /\ r_call' = NoCall
    /\ ev' = [Ev(c.op, res, val, IF IsRawKind(c.kind) THEN c.min_len ELSE 0)
                 EXCEPT !.len = IF IsRawKind(c.kind) THEN c.buflen ELSE 0]
    /\ read_out' = IF res = "Ok" /\ IsReadOp(c.op) THEN read_out \o out ELSE read_out
    /\ skipped' = IF res = "Ok" /\ IsConsumeOp(c.op) THEN skipped \o out ELSE skipped
    /\ peeked' = IF res = "Ok" /\ IsPeekOp(c.op) /\ c.consume THEN peeked \o out
                 ELSE peeked
    /\ kept' = IF res = "Ok" /\ c.keep /\ ~IsPeekOp(c.op) THEN kept \o out ELSE kept
    /\ consumed_cnt' = IF res = "Ok" /\ ~IsPeekOp(c.op)
                       THEN consumed_cnt + Len(out) ELSE consumed_cnt
    /\ grb' = IF res = "Ok" /\ c.fin
              THEN Take(grb, Len(grb) - c.n) \o out \o Zeros(c.n - Len(out))
              ELSE grb
    /\ UNCHANGED <<w_pc, nw, recovered, reset_base, tail, flush_len, eof_written, aborted,
                   reader_closed, decVars, unitVars>>

\* The call panics: at lock().unwrap() on a poisoned mutex, or in reader-local
\* code (size_check); w1, r1, ret1 are the reader-local values reached so far.
ReaderPanics(c, w1, r1, ret1) ==
    /\ ReaderReturn(c, "panic", 0, <<>>)
    /\ write_offset' = w1 /\ read_offset' = r1 /\ retained_buffer' = ret1
    /\ notified' = notified \ {"reader"}
    /\ UNCHANGED <<data, target_len, poisoned, front_moved, pl_data, processed_len>>

\* lock_for_read / wait_for_read return err (lines 402, 413).  InputStream::
\* read_internal passes the error on with `?` (line 219); InputStream::consume
\* restores its offsets and the retained buffer only when keep (lines 119-126).
ReadFail(c, err, first, w1, r1, ret1) ==
    LET restore == c.kind = "consume" /\ c.keep IN
    /\ ReaderReturn(c, err, Len(data), <<>>)
    /\ write_offset' = IF restore THEN c.old_w ELSE w1
    /\ read_offset' = IF restore THEN c.old_r ELSE r1
    /\ retained_buffer' = IF restore THEN Take(ret1, c.old_ret) ELSE ret1
    /\ target_len' = IF first THEN target_len ELSE 0
    /\ notified' = notified \ {"reader"}
    /\ UNCHANGED <<data, poisoned, front_moved, pl_data, processed_len>>

\* wait_for_read publishes target_len and blocks in cv.wait (lines 414-415)
ReadBlock(c, w1, r1, ret1) ==
    /\ r_pc' = "wait"
    /\ r_call' = c
    /\ target_len' = c.buflen
    /\ notified' = notified \ {"reader"}
    /\ write_offset' = w1 /\ read_offset' = r1 /\ retained_buffer' = ret1
    /\ ev' = [Ev(c.op, "wait", Len(data), IF IsRawKind(c.kind) THEN c.min_len ELSE 0)
                 EXCEPT !.len = IF IsRawKind(c.kind) THEN c.buflen ELSE 0]
    /\ UNCHANGED <<data, eof_written, aborted, reader_closed, poisoned, front_moved,
                   pl_data, processed_len, w_pc, grb, flush_len, histVars, decVars, unitVars>>

\* StreamBuffer::read into the destination of c.buflen bytes, with the first
\* deque slice first_slice_len long, then StreamBuffer::consume, then the rest
\* of the calling InputStream method.
ReadCopy(c, first, first_slice_len, w1, r1, ret1) ==
    LET rl == read_len_of(c.buflen) IN
    IF c.kind # "io_consume" /\ read_panics(c.buflen, first_slice_len)
    THEN \* clone_from_slice panics while the guard is held
         /\ ReaderReturn(c, "panic", 0, <<>>)
         /\ poisoned' = TRUE
         /\ target_len' = IF first THEN target_len ELSE 0
         /\ write_offset' = w1 /\ read_offset' = r1 /\ retained_buffer' = ret1
         /\ notified' = notified \ {"reader"}
         /\ UNCHANGED <<data, front_moved, pl_data, processed_len>>
    ELSE
    LET taken == IF c.kind = "io_consume" THEN c.n ELSE rl
        fresh == Take(data, rl) \o SubSeq(pl_data, rl + 1, Len(pl_data))
        size_to_fill == Min(c.n - c.p, rl)
        out == CASE c.kind = "read" -> c.buf \o Take(data, size_to_fill)
                 [] c.kind = "consume" -> c.buf \o Take(fresh, c.n - c.p)
                 [] c.kind = "io_read" -> Take(data, rl)
                 [] OTHER -> Take(data, c.n)
    IN
    /\ data' = IF c.consume THEN consumed_data(taken) ELSE data
    /\ front_moved' = IF c.consume THEN consumed_front(taken) ELSE front_moved
    /\ target_len' = IF first THEN target_len ELSE 0
    /\ notified' = notified \ {"reader"}
    /\ poisoned' = poisoned
    /\ IF c.kind = "read"
       THEN /\ pl_data' = fresh
            /\ write_offset' = rl
            /\ read_offset' = size_to_fill
            /\ processed_len' = processed_len + Len(out)
            /\ retained_buffer' = IF c.keep THEN ret1 \o out ELSE ret1
            /\ ReaderReturn(c, "Ok", Len(out), out)
       ELSE IF c.kind = "consume"
       THEN /\ pl_data' = fresh
            /\ write_offset' = rl
            /\ read_offset' = c.n - c.p
            /\ processed_len' = processed_len + c.n
            /\ retained_buffer' = IF c.keep THEN ret1 \o Take(fresh, c.n - c.p) ELSE ret1
            /\ ReaderReturn(c, "Ok", c.n, out)
       ELSE /\ UNCHANGED <<pl_data, processed_len>>
            /\ write_offset' = w1 /\ read_offset' = r1 /\ retained_buffer' = ret1
            /\ ReaderReturn(c, "Ok", taken, out)

\* IoStream::read_internal / IoStream::consume from lock_for_read on (first),
\* or from the return of cv.wait on (~first)
IoLocked(c, first, w1, r1, ret1) ==
    IF poisoned THEN ReaderPanics(c, w1, r1, ret1)
    ELSE IF first /\ validate_for_read(FALSE) # "Ok"
    THEN ReadFail(c, validate_for_read(FALSE), first, w1, r1, ret1)
    ELSE IF Len(data) < c.min_len
    THEN IF validate_for_read(TRUE) # "Ok"
         THEN ReadFail(c, validate_for_read(TRUE), first, w1, r1, ret1)
         ELSE ReadBlock(c, w1, r1, ret1)
    ELSE \E fs \in FirstSliceLens : ReadCopy(c, first, fs, w1, r1, ret1)

\* InputStream::read_internal (always called with consume = true)
read_internal(op, n, fill, keep, fin) ==
    LET p == data_len
        rl == IF p > 0 THEN Min(n, p) ELSE 0
        off == IF p > 0 THEN Buffer_consume(rl) ELSE <<write_offset, read_offset>>
        c == [kind |-> "read", op |-> op, n |-> n, keep |-> keep, consume |-> TRUE,
              buflen |-> capacity, min_len |-> IF fill THEN n - p ELSE 1,
              buf |-> data_slice(rl), p |-> p,
              old_w |-> write_offset, old_r |-> read_offset,
              old_ret |-> Len(retained_buffer), fin |-> fin]
    IN
    IF n = 0
    THEN /\ ReaderReturn(c, "Ok", 0, <<>>)
         /\ UNCHANGED <<data, target_len, poisoned, front_moved, viewVars, notified>>
    ELSE IF fill /\ n > capacity
    THEN ReaderPanics(c, write_offset, read_offset, retained_buffer)
    ELSE IF p = 0 \/ (fill /\ p < n)
    THEN IoLocked(c, TRUE, off[1], off[2], retained_buffer)
    ELSE /\ write_offset' = off[1] /\ read_offset' = off[2]
         /\ processed_len' = processed_len + rl
         /\ retained_buffer' = IF keep THEN retained_buffer \o data_slice(rl)
                               ELSE retained_buffer
         /\ ReaderReturn(c, "Ok", rl, data_slice(rl))
         /\ UNCHANGED <<data, target_len, poisoned, front_moved, pl_data, notified>>

\* InputStream::consume
consume(n, keep) ==
    LET p == data_len
        pre == Min(p, n)
        ret1 == IF keep
                THEN retained_buffer \o Zeros(n) \o (IF p > 0 THEN data_slice(pre) ELSE <<>>)
                ELSE retained_buffer
        off == Buffer_consume(pre)
        c == [kind |-> "consume", op |-> "consume", n |-> n, keep |-> keep,
              consume |-> TRUE, buflen |-> capacity, min_len |-> n - p,
              buf |-> data_slice(pre), p |-> p,
              old_w |-> write_offset, old_r |-> read_offset,
              old_ret |-> Len(retained_buffer), fin |-> FALSE]
    IN
    IF n > capacity
    THEN ReaderPanics(c, write_offset, read_offset, retained_buffer)
    ELSE IF n > p
    THEN IoLocked(c, TRUE, off[1], off[2], ret1)
    ELSE /\ write_offset' = off[1] /\ read_offset' = off[2]
         /\ processed_len' = processed_len + n
         /\ retained_buffer' = ret1
         /\ ReaderReturn(c, "Ok", n, data_slice(pre))
         /\ UNCHANGED <<data, target_len, poisoned, front_moved, pl_data, notified>>

Read(n, fill, keep) == r_pc = "run" /\ read_internal("read", n, fill, keep, FALSE)

ReadByte(keep) == r_pc = "run" /\ read_internal("read_byte", 1, TRUE, keep, FALSE)

Peek(n, fill) == r_pc = "run" /\ read_internal("peek", n, fill, FALSE, FALSE)

PeekByte == r_pc = "run" /\ read_internal("peek_byte", 1, TRUE, FALSE, FALSE)

Consume(n, keep) == r_pc = "run" /\ consume(n, keep)

\* the reader returns from cv.wait: notified, or spuriously
ReaderWake ==
    /\ r_pc = "wait"
    /\ IoLocked(r_call, FALSE, write_offset, read_offset, retained_buffer)


\* IoStream::read (consume) and IoStream::peek called on the shared stream
\* itself, with a destination of buflen bytes
io_read_internal(op, buflen, min_len, consume_flag) ==
    LET c == [kind |-> "io_read", op |-> op, n |-> buflen, keep |-> FALSE,
              consume |-> consume_flag, buflen |-> buflen, min_len |-> min_len,
              buf |-> <<>>, p |-> 0, old_w |-> write_offset, old_r |-> read_offset,
              old_ret |-> Len(retained_buffer), fin |-> FALSE]
    IN
    IF min_len > buflen
    THEN ReaderPanics(c, write_offset, read_offset, retained_buffer)
    ELSE IoLocked(c, TRUE, write_offset, read_offset, retained_buffer)

IoRead(buflen, min_len) == r_pc = "run" /\ io_read_internal("io_read", buflen, min_len, TRUE)

IoPeek(buflen, min_len) == r_pc = "run" /\ io_read_internal("io_peek", buflen, min_len, FALSE)

\* IoStream::consume
IoConsume(len) ==
    /\ r_pc = "run"
    /\ IoLocked([kind |-> "io_consume", op |-> "io_consume", n |-> len, keep |-> FALSE,
                 consume |-> TRUE, buflen |-> len, min_len |-> len,
                 buf |-> <<>>, p |-> 0, old_w |-> write_offset, old_r |-> read_offset,
                 old_ret |-> Len(retained_buffer), fin |-> FALSE],
                TRUE, write_offset, read_offset, retained_buffer)

ReaderLocal(op) ==
    /\ r_pc = "run"
    /\ ev' = Ev(op, "Ok", 0, 0)
    /\ UNCHANGED <<streamVars, pl_data, write_offset, read_offset, r_pc, r_call, w_pc,
                   notified, grb, flush_len, nw, read_out, skipped, recovered, peeked,
                   tail, decVars, unitVars>>

\* InputStream::reset_processed_len
ResetProcessedLen ==
    /\ ReaderLocal("reset_processed_len")
    /\ processed_len' = 0
    /\ consumed_cnt' = 0
    /\ reset_base' = nw - Len(data_slice(data_len) \o data) - Len(recovered)
    /\ UNCHANGED <<retained_buffer, kept>>

\* InputStream::clear_retained_data
ClearRetainedData ==
    /\ ReaderLocal("clear_retained_data")
    /\ retained_buffer' = <<>>
    /\ kept' = <<>>
    /\ UNCHANGED <<processed_len, consumed_cnt, reset_base>>

\* IoStream::abort and IoStream::close, called by the reader in state pc and
\* leaving it in state next
abort(op, pc, next) ==
    /\ r_pc = pc
    /\ UNCHANGED <<data, target_len, eof_written, front_moved, viewVars, r_call, w_pc,
                   grb, flush_len, nw, read_out, skipped, recovered, kept, consumed_cnt,
                   peeked, reset_base, decVars, unitVars>>
    /\ tail' = IF op = "fin_abort" THEN data_slice(data_len) \o data ELSE tail
    /\ IF poisoned
       THEN /\ r_pc' = "panicked"
            /\ ev' = Ev(op, "panic", 0, 0)
            /\ UNCHANGED <<aborted, reader_closed, poisoned, notified>>
       ELSE /\ aborted' = TRUE
            /\ r_pc' = next
            /\ ev' = Ev(op, "Ok", 0, 0)
            /\ UNCHANGED <<reader_closed, poisoned, notified>>

\* a close that sets reader_closed and leaves aborted alone (not the code's)
close_without_abort(op, pc, next) ==
    /\ r_pc = pc
    /\ UNCHANGED <<data, target_len, eof_written, front_moved, viewVars, r_call, w_pc,
                   grb, flush_len, histVars, decVars, unitVars>>
    /\ IF poisoned
       THEN /\ r_pc' = "panicked"
            /\ ev' = Ev(op, "panic", 0, 0)
            /\ UNCHANGED <<aborted, reader_closed, poisoned, notified>>
       ELSE /\ reader_closed' = TRUE
            /\ notified' \in notify_one
            /\ r_pc' = next
            /\ ev' = Ev(op, "Ok", 0, 0)
            /\ UNCHANGED <<aborted, poisoned>>

close(op, pc, next) ==
    /\ r_pc = pc
    /\ UNCHANGED <<data, target_len, eof_written, front_moved, viewVars, r_call, w_pc,
                   grb, flush_len, histVars, decVars, unitVars>>
    /\ IF poisoned
       THEN /\ r_pc' = "panicked"
            /\ ev' = Ev(op, "panic", 0, 0)
            /\ UNCHANGED <<aborted, reader_closed, poisoned, notified>>
       ELSE /\ aborted' = TRUE
            /\ reader_closed' = TRUE
            /\ notified' \in notify_one
            /\ r_pc' = next
            /\ ev' = Ev(op, "Ok", 0, 0)
            /\ UNCHANGED poisoned

Abort == abort("abort", "run", "run")

Close == close("close", "run", "run")

\* JpegDecoder::decode after the marker loop (decoder.rs lines 85-94)
FinAbort == abort("fin_abort", "run", "fin_len")

\* grb.extend(view_retained_data()); grb.resize(old_grb_len + input.len(), 0)
FinLen ==
    /\ r_pc = "fin_len"
    /\ UNCHANGED <<streamVars, viewVars, r_call, w_pc, notified, histVars, decVars, unitVars>>
    /\ IF poisoned
       THEN /\ r_pc' = "panicked"
            /\ ev' = Ev("fin_len", "panic", 0, 0)
            /\ UNCHANGED <<grb, flush_len>>
       ELSE /\ grb' = grb \o retained_buffer \o Zeros(Len(data))
            /\ flush_len' = Len(data)
            /\ r_pc' = "fin_read"
            /\ ev' = Ev("fin_len", "Ok", Len(data), 0)

\* input.read(&mut grb[old_grb_len..], true, false).unwrap()
FinRead == r_pc = "fin_read" /\ read_internal("fin_read", flush_len, TRUE, FALSE, TRUE)

FinClose == close("fin_close", "fin_close", "done")

\* ------------------------------------------------------------ writer
WriterFrame ==
    UNCHANGED <<viewVars, r_pc, r_call, grb, flush_len, read_out, skipped, kept,
                consumed_cnt, peeked, reset_base, tail, decVars, unitVars>>

\* lock().unwrap() (or cv.wait(..).unwrap()) on a poisoned mutex
WriterPanics(op) ==
    /\ w_pc' = "panicked"
    /\ ev' = Ev(op, "panic", 0, 0)
    /\ notified' = notified \ {"writer"}
    /\ UNCHANGED <<streamVars, nw, recovered>>

\* IoStream::write of the next k bytes
Write(k) ==
    /\ w_pc = "run"
    /\ nw + k <= MaxWritten
    /\ WriterFrame
    /\ IF poisoned THEN WriterPanics("write")
       ELSE IF validate_for_write # "Ok"
       THEN /\ ev' = Ev("write", validate_for_write, 0, k)
            /\ UNCHANGED <<streamVars, w_pc, notified, nw, recovered>>
       ELSE /\ data' = data \o [i \in 1..k |-> nw + i]
            /\ nw' = nw + k
            /\ notified' \in (IF Len(data) + k >= target_len THEN notify_one
                              ELSE {notified})
            /\ ev' = Ev("write", "Ok", k, k)
            /\ UNCHANGED <<target_len, eof_written, aborted, reader_closed, poisoned,
                           front_moved, w_pc, recovered>>

\* IoStream::write_eof
WriteEof ==
    /\ w_pc = "run"
    /\ WriterFrame
    /\ IF poisoned THEN WriterPanics("write_eof")
       ELSE IF validate_for_write # "Ok"
       THEN /\ ev' = Ev("write_eof", validate_for_write, 0, 0)
            /\ UNCHANGED <<streamVars, w_pc, notified, nw, recovered>>
       ELSE /\ eof_written' = TRUE
            /\ notified' \in notify_one
            /\ ev' = Ev("write_eof", "Ok", 0, 0)
            /\ UNCHANGED <<data, target_len, aborted, reader_closed, poisoned,
                           front_moved, w_pc, nw, recovered>>

\* IoStream::wait_for_close up to its return or its first cv.wait
WaitForClose ==
    /\ w_pc = "run"
    /\ WriterFrame
    /\ IF poisoned THEN WriterPanics("wait_for_close")
       ELSE /\ UNCHANGED <<streamVars, notified, nw, recovered>>
            /\ IF ~aborted
               THEN ev' = Ev("wait_for_close", "Err", 0, 0) /\ w_pc' = w_pc
               ELSE IF reader_closed
               THEN ev' = Ev("wait_for_close", "Ok", 0, 0) /\ w_pc' = w_pc
               ELSE ev' = Ev("wait_for_close", "wait", 0, 0) /\ w_pc' = "wait_close"

\* the writer returns from cv.wait: notified, or spuriously
WaitForCloseWake ==
    /\ w_pc = "wait_close"
    /\ WriterFrame
    /\ IF poisoned THEN WriterPanics("wait_for_close")
       ELSE /\ UNCHANGED <<streamVars, nw, recovered>>
            /\ notified' = notified \ {"writer"}
            /\ IF reader_closed
               THEN ev' = Ev("wait_for_close", "Ok", 0, 0) /\ w_pc' = "run"
               ELSE ev' = Ev("wait_for_close", "wait", 0, 0) /\ w_pc' = w_pc

\* IoStream::take_unread_data (OutputStream::unread_data)
TakeUnreadData ==
    /\ w_pc = "run"
    /\ WriterFrame
    /\ IF poisoned THEN WriterPanics("take_unread_data")
       ELSE IF reader_closed /\ data # <<>>
       THEN /\ recovered' = data
            /\ data' = <<>>
            /\ ev' = Ev("take_unread_data", "Some", Len(data), 0)
            /\ UNCHANGED <<target_len, eof_written, aborted, reader_closed, poisoned,
                           front_moved, w_pc, notified, nw>>
       ELSE /\ ev' = Ev("take_unread_data", "None", 0, 0)
            /\ UNCHANGED <<streamVars, w_pc, notified, nw, recovered>>

\* ------------------------------------------------------ specification
\* no JpegDecoder has been constructed on the stream
NoDecoder ==
    /\ d_pc = "none" /\ header_only = FALSE /\ start_byte = 0
    /\ frame = 0 /\ scans = <<>> /\ format = [handoff |-> 0, grb |-> <<>>]
    /\ previous_marker = "SOI" /\ n_scan_processed = 0
    /\ mcu_y = 0 /\ height = 0 /\ result = [kind |-> "none", msg |-> ""]
    /\ seen = <<>> /\ eof_at = <<>> /\ pushes = <<>>

\* decode_scan is not running
NoScan ==
    /\ s_pc = "none" /\ restart_interval = 0
    /\ frame_size_in_mcu = [width |-> 0, height |-> 0] /\ components = <<>>
    /\ mcu_x = 0 /\ n_mcu_left_until_restart = 0 /\ expected_rst_num = 0
    /\ eob_run = 0 /\ dc_predictors = <<0, 0, 0, 0>> /\ bits = 0
    /\ s_result = [kind |-> "none", msg |-> ""]
    /\ decoded = <<>> /\ rst_reads = <<>>

\* no hand-off list is being serialized
NoHandoffs ==
    /\ h_pc = "none" /\ h_row = [bytes |-> 0, overhang_byte |-> 0, n_overhang_bit |-> 0]
    /\ handoffs = <<>> /\ serialized = <<>>

\* no block is being decoded
NoBlock ==
    /\ b_pc = "none" /\ successive_approximation_low = 0 /\ dc_predictor = 0
    /\ coefficients_0 = 0 /\ dc_value = 0 /\ dc_diff = 0 /\ n_blocks = 0
    /\ b_result = [kind |-> "none", msg |-> ""]

\* no slice has been taken
NoPge == [kind |-> "none", at |-> 0, len |-> 0, underflow |-> FALSE]

\* the table slots of the model
TableIds == {0, 1}

NoScanInfo ==
    [spectral_selection |-> [start |-> 0, end |-> 0], successive_approximation_high |-> 0,
     dc_table_index |-> 0, ac_table_index |-> 0, quantization_table_index |-> 0]

\* JpegDecoder::new: every table is None, is_mjpeg is false
NoTables ==
    /\ dc_huffman_tables = [i \in TableIds |-> FALSE]
    /\ ac_huffman_tables = [i \in TableIds |-> FALSE]
    /\ quantization_tables = [i \in TableIds |-> FALSE]
    /\ is_mjpeg = FALSE /\ mjpeg_seen = FALSE /\ scan_info = NoScanInfo

\* no JpegStreamDecoder was built
NoDriver ==
    /\ decoder_handle = "None" /\ decoder_thread = "none" /\ drv_pc = "none"
    /\ drv_call = "none" /\ joins = 0 /\ n_calls = 0

NoAux == pge_from = NoPge /\ NoTables /\ NoDriver

NoUnits == NoScan /\ NoHandoffs /\ NoBlock /\ NoAux

\* iostream(pre_load_len): IoStream::default() and InputStream::new
StreamInit ==
    /\ data = <<>> /\ target_len = 0
    /\ eof_written = FALSE /\ aborted = FALSE /\ reader_closed = FALSE
    /\ poisoned = FALSE /\ front_moved = FALSE
    /\ pl_data \in {Zeros(len) : len \in 1..MaxPreLoad}
    /\ write_offset = 0 /\ read_offset = 0
    /\ retained_buffer = <<>> /\ processed_len = 0
    /\ r_pc = "run" /\ r_call = NoCall /\ w_pc = "run" /\ notified = {}
    /\ grb = <<>> /\ flush_len = 0
    /\ nw = 0 /\ read_out = <<>> /\ skipped = <<>> /\ recovered = <<>>
    /\ kept = <<>> /\ consumed_cnt = 0 /\ peeked = <<>> /\ reset_base = 0
    /\ tail = <<>>
    /\ ev = Ev("init", "Ok", 0, 0)

Init == StreamInit /\ NoDecoder /\ NoUnits

Next ==
    \/ \E k \in 0..MaxWritten : Write(k)
    \/ WriteEof
    \/ WaitForClose
    \/ WaitForCloseWake
    \/ TakeUnreadData
    \/ \E n \in 0..MaxBuf, fill \in BOOLEAN, keep \in BOOLEAN : Read(n, fill, keep)
    \/ \E keep \in BOOLEAN : ReadByte(keep)
    \/ \E n \in 0..MaxBuf, fill \in BOOLEAN : Peek(n, fill)
    \/ PeekByte
    \/ \E n \in 0..MaxBuf, keep \in BOOLEAN : Consume(n, keep)
    \/ ReaderWake
    \/ ResetProcessedLen
    \/ ClearRetainedData
    \/ Abort
    \/ Close
    \/ FinAbort
    \/ FinLen
    \/ FinRead
    \/ FinClose

Spec == Init /\ [][Next]_vars


\* the IoStream used directly, without the InputStream wrapper
NextIo ==
    \/ \E k \in 0..MaxWritten : Write(k)
    \/ WriteEof
    \/ WaitForClose
    \/ WaitForCloseWake
    \/ TakeUnreadData
    \/ \E buflen \in 0..MaxBuf : \E min_len \in 0..buflen : IoRead(buflen, min_len)
    \/ \E buflen \in 0..MaxBuf : \E min_len \in 0..buflen : IoPeek(buflen, min_len)
    \/ \E len \in 0..MaxBuf : IoConsume(len)
    \/ ReaderWake
    \/ Abort
    \/ Close

SpecIo == Init /\ [][NextIo]_vars

\* A thread that notify_one has woken returns from cv.wait.
ReaderWakeNotified == "reader" \in notified /\ ReaderWake

WaitForCloseWakeNotified == "writer" \in notified /\ WaitForCloseWake

FairSpec == Spec /\ WF_vars(ReaderWakeNotified) /\ WF_vars(WaitForCloseWakeNotified)


\* ------------------------------------------------------- JpegDecoder
\* The marker loop of JpegDecoder::decode_internal, decode_scan row by row,
\* and decode's handling of the result.  The input is taken one unit at a
\* time (a marker with its segment, or one MCU row of entropy data), each
\* unit counting 1 in processed_len; parsers and block decoders are taken by
\* their outcome.
\* number of markers dispatched after SOI
MaxMarkers == 4
\* largest height, in MCU rows, of a scan
MaxRows == 2
\* largest start_byte, in input units
MaxStartByte == 3

Res(kind, msg) == [kind |-> kind, msg |-> msg]

Malformatted(msg) == Res("Malformatted", msg)

Unsupported(feature) == Res("Unsupported", feature)

\* Scan::new(raw_header, info): no truncation yet
NewScan == [truncation |-> <<>>, coefficients |-> "new"]

IoUnchanged ==
    UNCHANGED <<streamVars, pl_data, write_offset, read_offset, retained_buffer, r_pc,
                r_call, w_pc, notified, grb, flush_len, histVars, ev>>

U16 == 65536

\* the record decode_scan pushes at the top of MCU row y of scan n (`as u16`,
\* and `as u32` on a length that stays below 2^31 here)
ThreadHandoffExt(n, y, len, over) ==
    [start_scan |-> n % U16, end_scan |-> n % U16, mcu_y_start |-> y % U16,
     segment_size |-> len,
     overhang_byte |-> over.overhang_byte, n_overhang_bit |-> over.n_overhang_bit,
     last_dc |-> <<0, 0, 0, 0>>]

\* the decoder's state as a record, and the step to the state d
Cur ==
    [d_pc |-> d_pc, frame |-> frame, scans |-> scans, format |-> format,
     previous_marker |-> previous_marker, n_scan_processed |-> n_scan_processed,
     mcu_y |-> mcu_y, height |-> height, result |-> result, seen |-> seen,
     start_byte |-> start_byte, processed_len |-> processed_len, eof_at |-> eof_at,
     pushes |-> pushes]

Set(d) ==
    /\ d_pc' = d.d_pc /\ frame' = d.frame /\ scans' = d.scans /\ format' = d.format
    /\ previous_marker' = d.previous_marker /\ n_scan_processed' = d.n_scan_processed
    /\ mcu_y' = d.mcu_y /\ height' = d.height /\ result' = d.result /\ seen' = d.seen
    /\ start_byte' = d.start_byte /\ processed_len' = d.processed_len
    /\ eof_at' = d.eof_at /\ pushes' = d.pushes
    /\ UNCHANGED <<header_only, unitVars>>
    /\ IoUnchanged

\* decode returns res
Return(d, res) == [d EXCEPT !.d_pc = "ret", !.result = res]

in_pge(d) == d.start_byte > 0 /\ d.processed_len > d.start_byte

\* (the comparison of line 67 taken as <=)
decode_eof_upto_start_byte(d0, empty) ==
    LET d == [d0 EXCEPT !.seen = Append(d0.seen, "EOF")] IN
    IF header_only THEN Return(d, Malformatted("incomplete header"))
    ELSE IF d.processed_len <= d.start_byte
    THEN Return(d, Malformatted("EOF encountered before start_byte"))
    ELSE IF d.format.handoff = 0
    THEN Return(d, Malformatted("no/insufficient entropy encoded data"))
    ELSE IF d.scans = <<>> THEN Return(d, Res("panic", "scans.last().unwrap()"))
    ELSE [d EXCEPT !.d_pc = "final",
                   !.scans = IF empty THEN Take(d.scans, Len(d.scans) - 1) ELSE d.scans]

\* decode, the arm Err(JpegError::EOF) (lines 65-82); empty is the value of
\* scans.last().unwrap().is_empty()
decode_eof(d0, empty) ==
    LET d == [d0 EXCEPT !.seen = Append(d0.seen, "EOF")] IN
    IF header_only THEN Return(d, Malformatted("incomplete header"))
    ELSE IF d.processed_len < d.start_byte
    THEN Return(d, Malformatted("EOF encountered before start_byte"))
    ELSE IF d.format.handoff = 0
    THEN Return(d, Malformatted("no/insufficient entropy encoded data"))
    ELSE IF d.scans = <<>> THEN Return(d, Res("panic", "scans.last().unwrap()"))
    ELSE [d EXCEPT !.d_pc = "final",
                   !.scans = IF empty THEN Take(d.scans, Len(d.scans) - 1) ELSE d.scans]

\* one input unit is consumed
Advance(d) == [d EXCEPT !.processed_len = d.processed_len + 1]

\* decode_internal, lines 108-115: the first two bytes
DecodeSoi(out) ==
    /\ d_pc = "start"
    /\ \E empty \in BOOLEAN :
        Set(CASE out = "soi" -> [Advance(Cur) EXCEPT !.d_pc = "loop", !.previous_marker = "SOI"]
              [] out = "other" ->
                    Return(Advance(Cur), Malformatted("first two bytes is not a SOI marker"))
              [] OTHER -> decode_eof(Cur, empty))

\* read_marker fails: the stream has ended (line 275, 276, 280), or 0xFF00
\* stands where a marker is expected (line 283)
ReadMarkerFails(out) ==
    /\ d_pc = "loop"
    /\ \E empty \in BOOLEAN :
        Set(IF out = "eof" THEN decode_eof(Cur, empty)
            ELSE Return([Advance(Cur) EXCEPT !.seen = Append(seen, "FF00")],
                        Malformatted("0xFF00 found where marker was expected (read_marker)")))

\* read_marker returns marker m: the state in which its arm starts
Dispatched(m) == [Advance(Cur) EXCEPT !.seen = Append(seen, m)]

\* line 265, and the next turn of the loop
ArmDone(d, m) == [d EXCEPT !.previous_marker = m, !.d_pc = "loop"]

CanDispatch == d_pc = "loop" /\ Len(seen) < MaxMarkers

\* a SOF arm without the frame.is_some() check: a later frame header
\* replaces the installed one (not the code's)
Sof_replaces_frame(out) ==
    /\ CanDispatch
    /\ \E empty \in BOOLEAN :
        LET d == Dispatched("SOF") IN
        Set(CASE out = "ok" -> ArmDone([d EXCEPT !.frame = Len(d.seen)], "SOF")
              [] out = "eof" -> decode_eof(d, empty)
              [] OTHER -> Return(d, Malformatted("parse_sof")))

\* Marker::SOF(n), lines 120-157; out is the outcome of parse_sof and of the
\* checks on the parsed frame
SofOutcomes ==
    {"ok", "eof", "malformatted", "differential", "lossless", "arithmetic", "precision",
     "zero_height", "component_count"}

Sof(out) ==
    /\ CanDispatch
    /\ \E empty \in BOOLEAN :
        LET d == Dispatched("SOF") IN
        Set(IF frame # 0 THEN Return(d, Unsupported("Hierarchical"))
            ELSE CASE out = "ok" -> ArmDone([d EXCEPT !.frame = Len(d.seen)], "SOF")
                   [] out = "eof" -> decode_eof(d, empty)
                   [] out = "malformatted" -> Return(d, Malformatted("parse_sof"))
                   [] out = "differential" -> Return(d, Unsupported("Hierarchical"))
                   [] out = "lossless" -> Return(d, Unsupported("Lossless"))
                   [] out = "arithmetic" -> Return(d, Unsupported("ArithmeticEntropyCoding"))
                   [] out = "precision" -> Return(d, Unsupported("SamplePrecision"))
                   [] out = "zero_height" -> Return(d, Unsupported("DNL"))
                   [] OTHER -> Return(d, Unsupported("ComponentCount")))

\* Marker::SOS, lines 159-198, up to the call of decode_scan; h is the height
\* of the scan in MCU rows.  The slice of the retained data taken while in_pge
\* (lines 168-176) panics when its start underflows or lies past the end.
Sos(out, h) ==
    /\ CanDispatch
    /\ \E empty \in BOOLEAN :
        LET d == Dispatched("SOS")
            pushed == [d EXCEPT !.scans = Append(d.scans, NewScan)]
        IN
        Set(IF frame = 0 THEN Return(d, Malformatted("scan encountered before frame"))
            ELSE IF out = "eof" THEN decode_eof(d, empty)
            ELSE IF out = "malformatted" THEN Return(d, Malformatted("parse_sos"))
            ELSE IF out = "pge_panic" /\ in_pge(pushed)
            THEN Return(pushed, Res("panic", "retained data slice"))
            ELSE IF header_only
            THEN ArmDone([pushed EXCEPT !.n_scan_processed = d.n_scan_processed + 1], "SOS")
            ELSE [pushed EXCEPT !.d_pc = "scan", !.mcu_y = 0, !.height = h])

\* the last scan of d is marked truncated at (component, y, x)
Truncated(d, ci, y, x) ==
    [d EXCEPT !.scans[Len(d.scans)].truncation = <<ci, y, x>>]

GrbExtend(d, what) == [d EXCEPT !.format.grb = d.format.grb \o what]

\* pop_handoff_and_verify_non_empty: the format after handoff.pop()
pop_handoff(d) ==
    [d EXCEPT !.format.handoff = IF d.format.handoff > 0 THEN d.format.handoff - 1 ELSE 0]

\* JpegDecoder::decode_block on Err(JpegError::EOF) (lines 488-511) for the
\* block (y, x) of scan component ci, with V = 1
block_eof(d0, ci, y, x, empty) ==
    LET d == [d0 EXCEPT !.eof_at = <<ci, y, x>>] IN
    IF d.processed_len < d.start_byte
    THEN Return([d EXCEPT !.seen = Append(d.seen, "EOF")],
                Malformatted("EOF encountered before start_byte"))
    ELSE IF ci = 0 /\ x = 0
    THEN IF pop_handoff(d).format.handoff = 0
         THEN decode_eof(pop_handoff(d), empty)
         ELSE decode_eof(Truncated(GrbExtend(pop_handoff(d),
                             <<IF y = 0 THEN "raw_header" ELSE "view_buffer", "view_buffer">>),
                             ci, y, x), empty)
    ELSE decode_eof(Truncated(GrbExtend(d, <<"view_buffer">>), ci, y, x), empty)

\* the overhang of the bit reader at the top of a row, which is not followed here
NoOverhang == [overhang_byte |-> 0, n_overhang_bit |-> 0]

\* (a hand-off for the first row of a scan only)
push_handoff_first_row_only(d, y) ==
    IF y > 0 THEN d
    ELSE [d EXCEPT !.format.handoff = d.format.handoff + 1,
                   !.pushes = Append(d.pushes,
                                     ThreadHandoffExt(d.n_scan_processed, y, d.processed_len,
                                                      NoOverhang))]

\* format.handoff.push(ThreadHandoffExt { .. }) at the top of row y, lines 361-370
push_handoff(d, y) ==
    [d EXCEPT !.format.handoff = d.format.handoff + 1,
              !.pushes = Append(d.pushes,
                                ThreadHandoffExt(d.n_scan_processed, y, d.processed_len,
                                                 NoOverhang))]

\* decode_scan, one turn of the loop over mcu_y (lines 354-434); the checks
\* at the head of decode_scan (lines 306-341) are taken with the first row
ScanOutcomes == {"ok", "malformatted", "eof", "rst_eof"}

ScanRow(out, ci, x, adv) ==
    /\ d_pc = "scan" /\ mcu_y < height
    /\ \E empty \in BOOLEAN :
        LET pge == IF in_pge(Cur) THEN [Cur EXCEPT !.start_byte = 0] ELSE Cur
            top == IF pge.start_byte = 0 THEN push_handoff(pge, mcu_y) ELSE pge
            at == IF adv THEN Advance(top) ELSE top
        IN
        Set(CASE out = "ok" -> [Advance(top) EXCEPT !.mcu_y = mcu_y + 1]
              [] out = "malformatted" -> Return(at, Malformatted("decode_scan"))
              [] out = "eof" -> block_eof(at, ci, mcu_y, x, empty)
              [] OTHER -> decode_eof(GrbExtend(at, <<"view_buffer">>), empty))

\* decode_scan returns Ok; lines 193-197 of the SOS arm
ScanDone ==
    /\ d_pc = "scan" /\ mcu_y = height
    /\ Set(ArmDone([Cur EXCEPT
                      !.scans[Len(scans)].coefficients =
                          IF start_byte > 0 THEN "None" ELSE @,
                      !.n_scan_processed = n_scan_processed + 1], "SOS"))

\* Marker::DQT, DHT, DRI, COM, APP (lines 201-230): the segment is parsed
SegmentMarkers == {"DQT", "DHT", "DRI", "COM", "APP"}

Segment(m, out) ==
    /\ CanDispatch
    /\ \E empty \in BOOLEAN :
        LET d == Dispatched(m) IN
        Set(CASE out = "ok" -> ArmDone(d, m)
              [] out = "eof" -> decode_eof(d, empty)
              [] OTHER -> Return(d, Malformatted("parse segment")))

\* Marker::DAC, lines 216-220
Dac == CanDispatch /\ Set(Return(Dispatched("DAC"), Unsupported("ArithmeticEntropyCoding")))

\* a RST arm after which previous_marker is still SOS (not the code's)
Rst_keeps_previous_marker ==
    /\ CanDispatch
    /\ Set(IF previous_marker # "SOS"
           THEN Return(Dispatched("RST"),
                       Malformatted("RST found outside of entropy-coded data"))
           ELSE ArmDone(Dispatched("RST"), "SOS"))

\* Marker::RST(_), lines 232-240
Rst ==
    /\ CanDispatch
    /\ Set(IF previous_marker # "SOS"
           THEN Return(Dispatched("RST"),
                       Malformatted("RST found outside of entropy-coded data"))
           ELSE ArmDone(Dispatched("RST"), "RST"))

\* a DNL arm that does not look at n_scan_processed (not the code's)
Dnl_after_any_scan ==
    /\ CanDispatch
    /\ Set(IF previous_marker # "SOS"
           THEN Return(Dispatched("DNL"),
                       Malformatted("DNL is only allowed immediately after the first scan"))
           ELSE Return(Dispatched("DNL"), Unsupported("DNL")))

\* Marker::DNL, lines 242-251
Dnl ==
    /\ CanDispatch
    /\ Set(IF previous_marker # "SOS" \/ n_scan_processed # 1
           THEN Return(Dispatched("DNL"),
                       Malformatted("DNL is only allowed immediately after the first scan"))
           ELSE Return(Dispatched("DNL"), Unsupported("DNL")))

\* Marker::DHP | Marker::EXP, lines 253-255
Hierarchical(m) == CanDispatch /\ Set(Return(Dispatched(m), Unsupported("Hierarchical")))

\* Marker::EOI, line 257: the loop ends and decode_internal returns Ok(())
Eoi == CanDispatch /\ Set([Dispatched("EOI") EXCEPT !.d_pc = "final"])

\* any other marker, lines 258-263
OtherMarker ==
    CanDispatch /\ Set(Return(Dispatched("OTHER"), Malformatted("marker found where not allowed")))

\* decode, lines 85-99: abort, the flush of the stream into grb (which can panic
\* in InputStream::read), close, and Ok(Jpeg { frame: frame.unwrap(), .. })
Finalize(flush_panics) ==
    /\ d_pc = "final"
    /\ Set(IF flush_panics /\ ~header_only THEN Return(Cur, Res("panic", "input.read"))
           ELSE IF frame = 0 THEN Return(Cur, Res("panic", "frame.unwrap()"))
           ELSE Return(Cur, Res("Ok", "")))

\* JpegDecoder::new(input, start_byte, header_only) on a fresh stream (the
\* input is taken by units here, so one pre-load size stands for all)
InitDec ==
    /\ StreamInit /\ Len(pl_data) = 1
    /\ d_pc = "start"
    /\ header_only \in BOOLEAN
    /\ start_byte \in (IF header_only THEN {0} ELSE 0..MaxStartByte)
    /\ frame = 0 /\ scans = <<>> /\ format = [handoff |-> 0, grb |-> <<>>]
    /\ previous_marker = "SOI" /\ n_scan_processed = 0
    /\ mcu_y = 0 /\ height = 0 /\ result = [kind |-> "none", msg |-> ""]
    /\ seen = <<>> /\ eof_at = <<>> /\ pushes = <<>>
    /\ NoUnits

NextDec ==
    \/ \E out \in {"soi", "other", "eof"} : DecodeSoi(out)
    \/ \E out \in {"eof", "zero"} : ReadMarkerFails(out)
    \/ \E out \in SofOutcomes : Sof(out)
    \/ \E out \in {"ok", "eof", "malformatted", "pge_panic"}, h \in 1..MaxRows : Sos(out, h)
    \/ \E out \in ScanOutcomes, ci \in {0, 1}, x \in {0, 1}, adv \in BOOLEAN :
          ScanRow(out, ci, x, adv)
    \/ ScanDone
    \/ \E m \in SegmentMarkers, out \in {"ok", "eof", "malformatted"} : Segment(m, out)
    \/ Dac
    \/ Rst
    \/ Dnl
    \/ \E m \in {"DHP", "EXP"} : Hierarchical(m)
    \/ Eoi
    \/ OtherMarker
    \/ \E flush_panics \in BOOLEAN : Finalize(flush_panics)

SpecDec == InitDec /\ [][NextDec]_vars

\* -------------------------------------------- decode_scan, MCU by MCU
\* One scan is decoded MCU by MCU (decoder.rs, lines 343-434): the loop over
\* mcu_y and mcu_x, the blocks of each MCU, and the restart handling after
\* it.  Block decodes are taken by their outcome.
\* largest width and height of the image, in 8x8 blocks
MaxBlocks == 4
\* largest restart interval
MaxRestart == 3
\* n_mcu_left_until_restart is a u16
\* the length of dc_predictors
MAX_COMPONENTS == 4

CeilDiv(a, b) == (a + b - 1) \div b

\* Component::size_in_block of a component sampled (h, v) in a frame whose
\* largest sampling factors are (hmax, vmax), for an image of x8 by y8 blocks
size_in_block(x8, y8, h, v, hmax, vmax) ==
    [width |-> CeilDiv(x8 * h, hmax), height |-> CeilDiv(y8 * v, vmax)]

\* FrameInfo::size_in_mcu
size_in_mcu_of(x8, y8, hmax, vmax) ==
    [width |-> CeilDiv(x8, hmax), height |-> CeilDiv(y8, vmax)]

\* the components of a frame with a luma component sampled (h, v) and a
\* chroma component sampled (1, 1)
FrameComponents(x8, y8, h, v) ==
    << [horizontal_sampling_factor |-> h, vertical_sampling_factor |-> v,
        size_in_block |-> size_in_block(x8, y8, h, v, h, v)],
       [horizontal_sampling_factor |-> 1, vertical_sampling_factor |-> 1,
        size_in_block |-> size_in_block(x8, y8, 1, 1, h, v)] >>

is_interleaved == Len(components) > 1

\* decode_scan's local size_in_mcu (lines 349-353): the bounds of the loop
size_in_mcu ==
    IF is_interleaved THEN frame_size_in_mcu ELSE components[1].size_in_block

\* the blocks of a component taken from one block row only (not the code's)
ComponentBlocks_one_row(i, y, x) ==
    LET c == components[i + 1]
        h == c.horizontal_sampling_factor
        v == c.vertical_sampling_factor
    IN [k \in 1..h |-> <<i, y * v, x * h + (k - 1)>>]

\* the blocks of component i (from 0) in the MCU (y, x) of an interleaved
\* scan, in the order of lines 375-392
ComponentBlocks(i, y, x) ==
    LET c == components[i + 1]
        h == c.horizontal_sampling_factor
        v == c.vertical_sampling_factor
    IN [k \in 1..(v * h) |-> <<i, y * v + ((k - 1) \div h), x * h + ((k - 1) % h)>>]

RECURSIVE McuBlocksFrom(_, _, _)
McuBlocksFrom(i, y, x) ==
    IF i >= Len(components) THEN <<>>
    ELSE ComponentBlocks(i, y, x) \o McuBlocksFrom(i + 1, y, x)

\* the blocks decoded for the MCU (y, x), lines 373-407
McuBlocks(y, x) ==
    IF is_interleaved THEN McuBlocksFrom(0, y, x) ELSE << <<0, y, x>> >>

\* the frame of the actions below
ScanFrame ==
    UNCHANGED <<streamVars, viewVars, r_pc, r_call, w_pc, notified, grb, flush_len, histVars,
                ev, d_pc, header_only, start_byte, frame, scans, format, previous_marker,
                n_scan_processed, height, result, seen, eof_at, pushes,
                restart_interval, frame_size_in_mcu, components, handVars, dcVars,
                auxVars>>

\* the loop goes on with the next MCU, or ends: decode_scan returns Ok(())
NextMcu ==
    IF mcu_x + 1 < size_in_mcu.width
    THEN mcu_x' = mcu_x + 1 /\ mcu_y' = mcu_y /\ s_pc' = "mcu"
    ELSE /\ mcu_x' = 0 /\ mcu_y' = mcu_y + 1
         /\ s_pc' = IF mcu_y + 1 < size_in_mcu.height THEN "mcu" ELSE "done"

\* a resynchronization that leaves expected_rst_num alone (not the code's)
Resync_keeps_expected ==
    /\ dc_predictors' = [i \in 1..MAX_COMPONENTS |-> 0]
    /\ eob_run' = 0
    /\ bits' = 0
    /\ expected_rst_num' = expected_rst_num
    /\ n_mcu_left_until_restart' = restart_interval

\* the state after a successful read_rst (lines 416-424)
Resync ==
    /\ dc_predictors' = [i \in 1..MAX_COMPONENTS |-> 0]
    /\ eob_run' = 0
    /\ bits' = 0
    /\ expected_rst_num' = (expected_rst_num + 1) % 8
    /\ n_mcu_left_until_restart' = restart_interval

\* is_last_mcu, lines 410-411
is_last_mcu ==
    /\ mcu_x = frame_size_in_mcu.width - 1
    /\ mcu_y = frame_size_in_mcu.height - 1

\* one turn of the loop over mcu_x (lines 372-433): every block of the MCU
\* decodes, leaving the predictors dcs, the run eob and b buffered bits; then the restart
\* handling.  found is what read_rst meets: the marker RST(expected_rst_num),
\* another marker, or the end of the stream; wraps says whether a u16 subtraction below zero
\* wraps (release build) or panics (debug build).
DecodeMcu(dcs, eob, b, found, wraps) ==
    /\ s_pc = "mcu"
    /\ \A i \in 1..MAX_COMPONENTS : i > Len(components) => dcs[i] = 0
    /\ ScanFrame
    /\ decoded' = decoded \o McuBlocks(mcu_y, mcu_x)
    /\ IF restart_interval = 0
       THEN /\ dc_predictors' = dcs /\ eob_run' = eob /\ bits' = b
            /\ NextMcu
            /\ UNCHANGED <<n_mcu_left_until_restart, expected_rst_num, s_result, rst_reads>>
       ELSE IF n_mcu_left_until_restart = 0 /\ ~wraps
       THEN /\ s_pc' = "ret" /\ s_result' = [kind |-> "panic", msg |-> "subtract with overflow"]
            /\ dc_predictors' = dcs /\ eob_run' = eob /\ bits' = b
            /\ UNCHANGED <<mcu_x, mcu_y, n_mcu_left_until_restart, expected_rst_num,
                           rst_reads>>
       ELSE LET left == (n_mcu_left_until_restart - 1) % U16 IN
            IF left = 0 /\ ~is_last_mcu
            THEN /\ rst_reads' = Append(rst_reads,
                                        [after |-> Len(decoded'), expected |-> expected_rst_num,
                                         found |-> found])
                 /\ IF found = "expected"
                    THEN Resync /\ NextMcu /\ UNCHANGED s_result
                    ELSE /\ s_pc' = "ret"
                         /\ s_result' = IF found = "eof" THEN [kind |-> "EOF", msg |-> ""]
                                        ELSE [kind |-> "Malformatted", msg |-> "read_rst"]
                         /\ dc_predictors' = dcs /\ eob_run' = eob /\ bits' = b
                         /\ n_mcu_left_until_restart' = left
                         /\ UNCHANGED <<mcu_x, mcu_y, expected_rst_num>>
            ELSE /\ dc_predictors' = dcs /\ eob_run' = eob /\ bits' = b
                 /\ n_mcu_left_until_restart' = left
                 /\ NextMcu
                 /\ UNCHANGED <<expected_rst_num, s_result, rst_reads>>

\* a block of the MCU fails to decode (the ? of lines 391 and 406)
BlockFails(k, out) ==
    /\ s_pc = "mcu"
    /\ k \in 1..Len(McuBlocks(mcu_y, mcu_x))
    /\ ScanFrame
    /\ decoded' = decoded \o SubSeq(McuBlocks(mcu_y, mcu_x), 1, k - 1)
    /\ s_pc' = "ret"
    /\ s_result' = [kind |-> out, msg |-> "decode_block"]
    /\ UNCHANGED <<mcu_x, mcu_y, n_mcu_left_until_restart, expected_rst_num, eob_run,
                   dc_predictors, bits, rst_reads>>

\* decode_scan is entered (lines 343-353) for a scan of a frame of x8 by y8
\* blocks whose luma component is sampled (h, v); which: the scan's components
InitScan ==
    /\ StreamInit /\ Len(pl_data) = 1
    /\ NoDecoder /\ NoHandoffs /\ NoBlock /\ NoAux
    /\ \E x8 \in 1..MaxBlocks, y8 \in 1..MaxBlocks, h \in {1, 2}, v \in {1, 2},
          which \in {"both", "luma", "chroma"} :
        /\ frame_size_in_mcu = size_in_mcu_of(x8, y8, h, v)
        /\ components = CASE which = "both" -> FrameComponents(x8, y8, h, v)
                          [] which = "luma" -> <<FrameComponents(x8, y8, h, v)[1]>>
                          [] OTHER -> <<FrameComponents(x8, y8, h, v)[2]>>
    /\ restart_interval \in 0..MaxRestart
    /\ s_pc = "mcu" /\ mcu_x = 0
    /\ n_mcu_left_until_restart = restart_interval
    /\ expected_rst_num = 0 /\ eob_run = 0 /\ bits = 0
    /\ dc_predictors = [i \in 1..MAX_COMPONENTS |-> 0]
    /\ s_result = [kind |-> "none", msg |-> ""]
    /\ decoded = <<>> /\ rst_reads = <<>>

NextScan ==
    \/ \E dcs \in [1..MAX_COMPONENTS -> {0, 1}], eob \in {0, 1}, b \in {0, 1},
          found \in {"expected", "other", "eof"},
          wraps \in BOOLEAN :
          DecodeMcu(dcs, eob, b, found, wraps)
    \/ \E k \in 1..5, out \in {"Malformatted", "EOF"} : BlockFails(k, out)

SpecScan == InitScan /\ [][NextScan]_vars

\* ------------------------------------------------------- thread_handoff.rs
\* the serialization of the hand-off list a decode recorded, one hand-off per
\* MCU row of the scan
MaxHandoffs == 257
U8 == 256
BYTES_PER_HANDOFF_EXT == 20

\* LittleEndian::u16_to_array and LittleEndian::u32_to_array
u16_to_array(x) == <<x % U8, (x \div U8) % U8>>

u32_to_array(x) ==
    <<x % U8, (x \div U8) % U8, (x \div (U8 * U8)) % U8, (x \div (U8 * U8 * U8)) % U8>>

\* `*last_dc as u8` then `(*last_dc >> 8) as u8`, for the four of them
last_dc_bytes(dc) ==
    <<dc[1] % U8, (dc[1] \div U8) % U8, dc[2] % U8, (dc[2] \div U8) % U8,
      dc[3] % U8, (dc[3] \div U8) % U8, dc[4] % U8, (dc[4] \div U8) % U8>>

\* the body of the loop over the list: the bytes of one hand-off
serialize_handoff(h) ==
    u16_to_array(h.start_scan) \o u16_to_array(h.end_scan) \o u16_to_array(h.mcu_y_start)
        \o u32_to_array(h.segment_size) \o <<h.overhang_byte, h.n_overhang_bit>>
        \o last_dc_bytes(h.last_dc)

RECURSIVE serialize_from(_, _)
serialize_from(list, i) ==
    IF i > Len(list) THEN <<>>
    ELSE serialize_handoff(list[i]) \o serialize_from(list, i + 1)

\* ThreadHandoffExt::serialize: `data.len() as u8`, then the records
ThreadHandoffExt_serialize(list) == <<Len(list) % U8>> \o serialize_from(list, 1)

\* one more MCU row of the scan: its hand-off is pushed
PushHandoff ==
    /\ h_pc = "collect" /\ Len(handoffs) < MaxHandoffs
    /\ handoffs' = Append(handoffs,
                          ThreadHandoffExt(0, Len(handoffs), Len(handoffs) * h_row.bytes, h_row))
    /\ UNCHANGED <<h_pc, h_row, serialized>>
    /\ UNCHANGED <<streamVars, viewVars, r_pc, r_call, w_pc, notified, grb, flush_len,
                   histVars, ev, decVars, scanVars, dcVars, auxVars>>

\* the decode is over and its list is serialized
Serialize ==
    /\ h_pc = "collect"
    /\ serialized' = ThreadHandoffExt_serialize(handoffs)
    /\ h_pc' = "done"
    /\ UNCHANGED <<h_row, handoffs>>
    /\ UNCHANGED <<streamVars, viewVars, r_pc, r_call, w_pc, notified, grb, flush_len,
                   histVars, ev, decVars, scanVars, dcVars, auxVars>>

InitHandoff ==
    /\ StreamInit /\ Len(pl_data) = 1 /\ NoDecoder /\ NoScan /\ NoBlock /\ NoAux
    /\ h_pc = "collect" /\ handoffs = <<>> /\ serialized = <<>>
    /\ h_row \in [bytes : {3, 70000}, overhang_byte : {0, 165}, n_overhang_bit : {0, 3}]

NextHandoff == PushHandoff \/ Serialize

SpecHandoff == InitHandoff /\ [][NextHandoff]_vars

\* ------------------------------------------ decode_block, the DC coefficient
\* The DC part of the free function decode_block (decoder.rs, lines 542-563)
\* for the blocks of a sequential scan (spectral_selection.start = 0).  The
\* AC part writes coefficients[UNZIGZAG[index]] with index >= 1 only and is
\* left out.
\* largest successive_approximation_low
MaxAl == 3
\* largest category returned by huffman.decode
MaxCategory == 13
\* blocks decoded in a row
MaxDcBlocks == 1
I16_MAX == 32767
MAX_DC_CATEGORY == 11

\* an integer as the i16 with the same low 16 bits
AsI16(x) == ((x + I16_MAX + 1) % U16) - (I16_MAX + 1)

\* (an add that saturates at the ends of i16)
saturating_add(a, b) ==
    IF a + b > I16_MAX THEN I16_MAX
    ELSE IF a + b < -(I16_MAX + 1) THEN -(I16_MAX + 1) ELSE a + b

\* i16::wrapping_add
wrapping_add(a, b) == AsI16(a + b)

\* `value << count` on an i16, count < 16
shl(value, count) == AsI16(value * 2^count)

\* HuffmanDecoder::receive_extend(input, count): the differences of category
\* count, of which the ends of the two ranges are taken
receive_extend(count) ==
    {-(2^count - 1), -(2^(count - 1)), 2^(count - 1), 2^count - 1}

\* the predictors a scan can have reached before a block
Predictors == {-(I16_MAX + 1), -I16_MAX, -2048, -1, 0, 1, 2047, I16_MAX - 1, I16_MAX}

BlockFrame ==
    UNCHANGED <<streamVars, viewVars, r_pc, r_call, w_pc, notified, grb, flush_len, histVars,
                ev, decVars, scanVars, handVars, auxVars, successive_approximation_low>>

\* decode_block, lines 542-563; fails names the read that ends the input
\* ("decode", "receive_extend") or is "none"
DecodeDc(value, diff, fails) ==
    /\ b_pc = "block" /\ n_blocks < MaxDcBlocks
    /\ n_blocks' = n_blocks + 1
    /\ dc_value' = IF fails = "decode" THEN dc_value ELSE value
    /\ IF fails = "decode"
       THEN /\ b_pc' = "ret" /\ b_result' = Res("EOF", "")
            /\ UNCHANGED <<dc_predictor, coefficients_0, dc_diff>>
       ELSE IF value > MAX_DC_CATEGORY
       THEN /\ b_pc' = "ret"
            /\ b_result' = Malformatted("invalid DC difference magnitude category")
            /\ UNCHANGED <<dc_predictor, coefficients_0, dc_diff>>
       ELSE IF value # 0 /\ fails = "receive_extend"
       THEN /\ b_pc' = "ret" /\ b_result' = Res("EOF", "")
            /\ UNCHANGED <<dc_predictor, coefficients_0, dc_diff>>
       ELSE /\ (IF value = 0 THEN diff = 0 ELSE diff \in receive_extend(value))
            /\ dc_diff' = diff
            /\ dc_predictor' = wrapping_add(dc_predictor, diff)
            /\ coefficients_0' = shl(wrapping_add(dc_predictor, diff),
                                     successive_approximation_low)
            /\ b_pc' = "block" /\ b_result' = Res("Ok", "")
    /\ BlockFrame

InitDc ==
    /\ StreamInit /\ Len(pl_data) = 1 /\ NoDecoder /\ NoScan /\ NoHandoffs /\ NoAux
    /\ b_pc = "block" /\ successive_approximation_low \in 0..MaxAl
    /\ dc_predictor \in Predictors
    /\ coefficients_0 = 0 /\ dc_value = 0 /\ dc_diff = 0 /\ n_blocks = 0
    /\ b_result = [kind |-> "none", msg |-> ""]

DiffsUpTo == {0} \cup UNION {receive_extend(count) : count \in 1..MAX_DC_CATEGORY}

NextDc ==
    \E value \in 0..MaxCategory, diff \in DiffsUpTo,
       fails \in {"none", "decode", "receive_extend"} : DecodeDc(value, diff, fails)

SpecDc == InitDc /\ [][NextDc]_vars

\* ------------------------------------------ the SOS arm in PGE mode
\* The bytes of the input are followed one by one through the marker loop:
\* the headers are read with keep = true into the retained data, which the
\* SOS arm clears (decoder.rs, lines 159-198), while processed_len counts on.
\* largest processed_len
MaxPgeLen == 8
\* largest start_byte
MaxPgeStart == 5

\* the start index of lines 170-174, `retained.len() - processed_len +
\* start_byte` on usize, then the slice `[max(index, 0)..]`.  A difference
\* below zero panics in a build with overflow checks and wraps in a build
\* without (wraps); a wrapped sum that stays below zero is an index past
\* the end of the slice.
pge_slice_start(rlen, plen, sb, wraps) ==
    IF rlen < plen /\ ~wraps
    THEN [kind |-> "panic", at |-> 0, len |-> rlen, underflow |-> TRUE]
    ELSE IF rlen - plen + sb < 0 \/ rlen - plen + sb > rlen
    THEN [kind |-> "panic", at |-> 0, len |-> rlen, underflow |-> rlen < plen]
    ELSE [kind |-> "index", at |-> rlen - plen + sb, len |-> rlen, underflow |-> rlen < plen]

\* the bytes numbered from..to of the input
Bytes(from, to) == [i \in 1..(to - from + 1) |-> from + i - 1]

PgeFrame ==
    UNCHANGED <<streamVars, pl_data, write_offset, read_offset, r_pc, r_call, w_pc, notified,
                grb, flush_len, histVars, ev, header_only, scans, format,
                previous_marker, seen, eof_at, pushes, scanVars, handVars, dcVars, tabVars,
                drvVars>>

\* decode_internal, lines 108-115: the two bytes of SOI, read with keep = true
PgeSoi ==
    /\ d_pc = "start"
    /\ d_pc' = "loop" /\ processed_len' = 2 /\ retained_buffer' = Bytes(1, 2)
    /\ UNCHANGED <<start_byte, frame, n_scan_processed, mcu_y, height, result, pge_from>>
    /\ PgeFrame

\* a marker and its segment (SOF when sof, else DQT, DHT, ...), n bytes read
\* with keep = true
PgeSegment(n, sof) ==
    /\ d_pc = "loop" /\ processed_len + n <= MaxPgeLen
    /\ processed_len' = processed_len + n
    /\ retained_buffer' = retained_buffer \o Bytes(processed_len + 1, processed_len + n)
    /\ frame' = IF sof THEN 1 ELSE frame
    /\ UNCHANGED <<d_pc, start_byte, n_scan_processed, mcu_y, height, result, pge_from>>
    /\ PgeFrame

\* Marker::SOS up to the call of decode_scan (lines 166-177): the header of n
\* bytes, the slice while in_pge, clear_retained_data; h is the height of the
\* scan in MCU rows
PgeSos(n, h, wraps) ==
    /\ d_pc = "loop" /\ frame # 0 /\ processed_len + n <= MaxPgeLen
    /\ LET plen == processed_len + n
           rlen == Len(retained_buffer) + n
           from == IF start_byte > 0 /\ plen > start_byte
                   THEN pge_slice_start(rlen, plen, start_byte, wraps)
                   ELSE NoPge
       IN /\ processed_len' = plen
          /\ pge_from' = from
          /\ IF from.kind = "panic"
             THEN /\ d_pc' = "ret" /\ result' = Res("panic", "retained data slice")
                  /\ retained_buffer' = retained_buffer \o Bytes(processed_len + 1, plen)
                  /\ UNCHANGED <<mcu_y, height>>
             ELSE /\ d_pc' = "scan" /\ result' = result
                  /\ retained_buffer' = <<>>
                  /\ mcu_y' = 0 /\ height' = h
    /\ UNCHANGED <<start_byte, frame, n_scan_processed>>
    /\ PgeFrame

\* decode_scan, one MCU row (lines 354-434): PGE mode ends at the top of the
\* row, then the n bytes of the row are read, kept or not by the Huffman
\* decoder (keep)
PgeRow(n, keep) ==
    /\ d_pc = "scan" /\ mcu_y < height /\ processed_len + n <= MaxPgeLen
    /\ start_byte' = IF start_byte > 0 /\ processed_len > start_byte THEN 0 ELSE start_byte
    /\ processed_len' = processed_len + n
    /\ retained_buffer' = IF keep
                          THEN retained_buffer \o Bytes(processed_len + 1, processed_len + n)
                          ELSE retained_buffer
    /\ mcu_y' = mcu_y + 1
    /\ UNCHANGED <<d_pc, frame, n_scan_processed, height, result, pge_from>>
    /\ PgeFrame

\* decode_scan returns Ok, lines 193-197
PgeScanDone ==
    /\ d_pc = "scan" /\ mcu_y = height
    /\ d_pc' = "loop" /\ n_scan_processed' = n_scan_processed + 1
    /\ UNCHANGED <<start_byte, frame, processed_len, retained_buffer, mcu_y, height, result,
                   pge_from>>
    /\ PgeFrame

InitPge ==
    /\ StreamInit /\ Len(pl_data) = 1
    /\ d_pc = "start" /\ header_only = FALSE /\ start_byte \in 0..MaxPgeStart
    /\ frame = 0 /\ scans = <<>> /\ format = [handoff |-> 0, grb |-> <<>>]
    /\ previous_marker = "SOI" /\ n_scan_processed = 0
    /\ mcu_y = 0 /\ height = 0 /\ result = [kind |-> "none", msg |-> ""]
    /\ seen = <<>> /\ eof_at = <<>> /\ pushes = <<>>
    /\ NoUnits

NextPge ==
    \/ PgeSoi
    \/ \E n \in {1, 2}, sof \in BOOLEAN : PgeSegment(n, sof)
    \/ \E n \in {1, 2}, h \in 1..MaxRows, wraps \in BOOLEAN : PgeSos(n, h, wraps)
    \/ \E n \in {1, 2}, keep \in BOOLEAN : PgeRow(n, keep)
    \/ PgeScanDone

SpecPge == InitPge /\ [][NextPge]_vars

\* ------------------------------------------ the tables and their verification
\* The table segments (DQT, DHT, APPn) of the marker loop, the verification
\* at the head of decode_scan (decoder.rs, lines 306-341) and the tables a
\* block decode takes (lines 458-486), for scans of one component.
\* spectral_selection is the range Ss..Se+1; 64 stands for every Se > 0.
ScanInfos ==
    {i \in [spectral_selection : {[start |-> 0, end |-> 1], [start |-> 0, end |-> 64],
                                  [start |-> 1, end |-> 64]},
            successive_approximation_high : {0, 1},
            dc_table_index : TableIds, ac_table_index : TableIds,
            quantization_table_index : TableIds] : TRUE}

TabFrame ==
    UNCHANGED <<streamVars, viewVars, r_pc, r_call, w_pc, notified, grb, flush_len, histVars,
                ev, header_only, start_byte, frame, scans, format, previous_marker,
                n_scan_processed, height, seen, eof_at, pushes, scanVars, handVars, dcVars,
                pge_from, drvVars>>

\* Marker::DQT and Marker::DHT (lines 201-214): the segment installs table id
\* of class cl, or fails to parse
TabTable(cl, id, out) ==
    /\ d_pc = "loop"
    /\ IF out = "ok"
       THEN /\ dc_huffman_tables' = IF cl = "dc" THEN [dc_huffman_tables EXCEPT ![id] = TRUE]
                                    ELSE dc_huffman_tables
            /\ ac_huffman_tables' = IF cl = "ac" THEN [ac_huffman_tables EXCEPT ![id] = TRUE]
                                    ELSE ac_huffman_tables
            /\ quantization_tables' = IF cl = "q" THEN [quantization_tables EXCEPT ![id] = TRUE]
                                      ELSE quantization_tables
            /\ UNCHANGED <<d_pc, result>>
       ELSE /\ d_pc' = "ret" /\ result' = Malformatted("table segment")
            /\ UNCHANGED <<dc_huffman_tables, ac_huffman_tables, quantization_tables>>
    /\ UNCHANGED <<is_mjpeg, mjpeg_seen, scan_info, mcu_y>>
    /\ TabFrame

\* Marker::APP(_) (lines 228-230): is_mjpeg takes the value parse_app returns,
\* which is true for an APP0 segment that names the stream as MJPEG (avi1)
TabApp(avi1, out) ==
    /\ d_pc = "loop"
    /\ IF out = "ok"
       THEN /\ is_mjpeg' = avi1 /\ mjpeg_seen' = (mjpeg_seen \/ avi1)
            /\ UNCHANGED <<d_pc, result>>
       ELSE /\ d_pc' = "ret" /\ result' = Malformatted("parse_app")
            /\ UNCHANGED <<is_mjpeg, mjpeg_seen>>
    /\ UNCHANGED <<dc_huffman_tables, ac_huffman_tables, quantization_tables, scan_info, mcu_y>>
    /\ TabFrame

\* fill_default_mjpeg_tables: the tables the scan names are set when missing
fill_default_mjpeg_tables(info, tables, index) == [tables EXCEPT ![index] = TRUE]

\* the condition of line 331 under which the AC tables are verified
ac_table_required(info) == info.spectral_selection.end > 1

\* Marker::SOS for the scan info, and the head of decode_scan (lines 306-341)
TabScan(info) ==
    /\ d_pc = "loop"
    /\ scan_info' = info
    /\ LET dc == IF is_mjpeg
                 THEN fill_default_mjpeg_tables(info, dc_huffman_tables, info.dc_table_index)
                 ELSE dc_huffman_tables
           ac == IF is_mjpeg
                 THEN fill_default_mjpeg_tables(info, ac_huffman_tables, info.ac_table_index)
                 ELSE ac_huffman_tables
       IN
       IF ~quantization_tables[info.quantization_table_index]
       THEN /\ d_pc' = "ret" /\ result' = Malformatted("use of unset quantization table")
            /\ UNCHANGED <<dc_huffman_tables, ac_huffman_tables>>
       ELSE /\ dc_huffman_tables' = dc /\ ac_huffman_tables' = ac
            /\ IF info.spectral_selection.start = 0 /\ ~dc[info.dc_table_index]
               THEN /\ d_pc' = "ret"
                    /\ result' = Malformatted("scan makes use of unset dc huffman table")
               ELSE IF ac_table_required(info) /\ ~ac[info.ac_table_index]
               THEN /\ d_pc' = "ret"
                    /\ result' = Malformatted("scan makes use of unset ac huffman table")
               ELSE /\ d_pc' = "scan" /\ result' = result
    /\ mcu_y' = 0
    /\ UNCHANGED <<quantization_tables, is_mjpeg, mjpeg_seen>>
    /\ TabFrame

\* JpegDecoder::decode_block, lines 458-486: the arguments of the call are
\* built with `.as_ref().unwrap()` on the DC and the AC table of the scan
\* when successive_approximation_high = 0, on the AC table otherwise
TabBlock ==
    /\ d_pc = "scan" /\ mcu_y = 0
    /\ IF scan_info.successive_approximation_high = 0
          /\ ~dc_huffman_tables[scan_info.dc_table_index]
       THEN d_pc' = "ret" /\ result' = Res("panic", "dc_huffman_tables[i].unwrap()")
                          /\ mcu_y' = mcu_y
       ELSE IF ~ac_huffman_tables[scan_info.ac_table_index]
       THEN d_pc' = "ret" /\ result' = Res("panic", "ac_huffman_tables[i].unwrap()")
                          /\ mcu_y' = mcu_y
       ELSE d_pc' = "scan" /\ result' = result /\ mcu_y' = 1
    /\ UNCHANGED tabVars
    /\ TabFrame

\* decode_scan returns Ok
TabScanDone ==
    /\ d_pc = "scan" /\ mcu_y = 1
    /\ d_pc' = "loop" /\ mcu_y' = 0
    /\ UNCHANGED <<result, tabVars>>
    /\ TabFrame

InitTab ==
    /\ StreamInit /\ Len(pl_data) = 1
    /\ d_pc = "loop" /\ header_only = FALSE /\ start_byte = 0
    /\ frame = 1 /\ scans = <<>> /\ format = [handoff |-> 0, grb |-> <<>>]
    /\ previous_marker = "SOI" /\ n_scan_processed = 0
    /\ mcu_y = 0 /\ height = 0 /\ result = [kind |-> "none", msg |-> ""]
    /\ seen = <<>> /\ eof_at = <<>> /\ pushes = <<>>
    /\ NoUnits

NextTab ==
    \/ \E cl \in {"dc", "ac", "q"}, id \in TableIds, out \in {"ok", "malformatted"} :
          TabTable(cl, id, out)
    \/ \E avi1 \in BOOLEAN, out \in {"ok", "malformatted"} : TabApp(avi1, out)
    \/ \E info \in ScanInfos : TabScan(info)
    \/ TabBlock
    \/ TabScanDone

SpecTab == InitTab /\ [][NextTab]_vars

\* ------------------------------------- JpegStreamDecoder (the driver)
MaxCalls == 3

DrvFrame ==
    UNCHANGED <<target_len, front_moved, pl_data, write_offset, read_offset, retained_buffer,
                r_pc, r_call, w_pc, notified, grb, flush_len, read_out, skipped, recovered,
                kept, consumed_cnt, peeked, reset_base, tail, decVars, scanVars, handVars,
                dcVars, pge_from, tabVars>>

\* JpegStreamDecoder::finish up to the call of join: take().unwrap() panics
\* on a handle that was taken before
finish(op) ==
    IF decoder_handle = "None"
    THEN /\ drv_pc' = "panicked" /\ ev' = Ev(op, "panic", 0, 0)
         /\ UNCHANGED <<decoder_handle, drv_call>>
    ELSE /\ decoder_handle' = "None" /\ drv_pc' = "join" /\ drv_call' = op
         /\ ev' = Ev(op, "wait", 0, 0)

\* JpegStreamDecoder::decode(input, input_offset) with k bytes left in input
DrvDecode(k) ==
    /\ drv_pc = "idle" /\ n_calls < MaxCalls
    /\ n_calls' = n_calls + 1
    /\ DrvFrame
    /\ UNCHANGED <<eof_written, aborted, reader_closed, poisoned, processed_len,
                   decoder_thread, joins>>
    /\ IF poisoned
       THEN /\ drv_pc' = "panicked" /\ ev' = Ev("decode", "panic", 0, k)
            /\ UNCHANGED <<data, nw, decoder_handle, drv_call>>
       ELSE IF validate_for_write # "Ok"
       THEN finish("decode") /\ UNCHANGED <<data, nw>>
       ELSE /\ data' = data \o [i \in 1..k |-> nw + i]
            /\ nw' = nw + k
            /\ ev' = Ev("decode", "Ok", k, k)
            /\ UNCHANGED <<decoder_handle, drv_pc, drv_call>>

\* JpegStreamDecoder::flush: the result of write_eof is dropped
DrvFlush ==
    /\ drv_pc = "idle" /\ n_calls < MaxCalls
    /\ n_calls' = n_calls + 1
    /\ DrvFrame
    /\ UNCHANGED <<data, nw, aborted, reader_closed, poisoned, processed_len,
                   decoder_thread, joins>>
    /\ IF poisoned
       THEN /\ drv_pc' = "panicked" /\ ev' = Ev("flush", "panic", 0, 0)
            /\ UNCHANGED <<eof_written, decoder_handle, drv_call>>
       ELSE /\ eof_written' = (eof_written \/ validate_for_write = "Ok")
            /\ finish("flush")

\* JoinHandle::join returns once the decoder thread has ended, and
\* finish unwraps it: a panic of the thread is passed on
DrvJoin ==
    /\ drv_pc = "join" /\ decoder_thread \in {"Ok", "Err", "panicked"}
    /\ joins' = joins + 1 /\ drv_call' = "none"
    /\ DrvFrame
    /\ UNCHANGED <<streamVars, processed_len, nw, decoder_handle, decoder_thread, n_calls>>
    /\ IF decoder_thread = "panicked"
       THEN drv_pc' = "panicked" /\ ev' = Ev(drv_call, "panic", 0, 0)
       ELSE /\ drv_pc' = (IF drv_call = "flush" THEN "flushed" ELSE "idle")
            /\ ev' = Ev(drv_call, decoder_thread, 0, 0)

\* the decoder thread has something to decide on: it has read input, or the
\* stream has ended
ThreadFed == processed_len > 0 \/ (eof_written /\ data = <<>>)

ThreadFrame ==
    /\ DrvFrame
    /\ UNCHANGED <<eof_written, nw, ev, decoder_handle, drv_pc, drv_call, joins, n_calls>>

\* the decoder thread takes k bytes from the stream
ThreadRead(k) ==
    /\ decoder_thread = "running" /\ ~poisoned /\ k \in 1..Len(data)
    /\ data' = Drop(data, k) /\ processed_len' = processed_len + k
    /\ UNCHANGED <<aborted, reader_closed, poisoned, decoder_thread>>
    /\ ThreadFrame

\* decode returns an error (lines 65-83), or the thread panics, inside the
\* stream's mutex or outside it
ThreadEnd(out, poison) ==
    /\ decoder_thread = "running" /\ ThreadFed
    /\ out \in {"Err", "panicked"} /\ (poison => out = "panicked")
    /\ decoder_thread' = out /\ poisoned' = (poisoned \/ poison)
    /\ UNCHANGED <<data, aborted, reader_closed, processed_len>>
    /\ ThreadFrame

\* decode, line 85: the image is complete, or ended inside a scan
ThreadAbort ==
    /\ decoder_thread = "running" /\ ThreadFed /\ ~poisoned
    /\ aborted' = TRUE /\ decoder_thread' = "finalizing"
    /\ UNCHANGED <<data, reader_closed, poisoned, processed_len>>
    /\ ThreadFrame

\* decode, lines 86-99: the drain, which may panic, close, and Ok
ThreadClose(panics) ==
    /\ decoder_thread = "finalizing"
    /\ IF panics \/ poisoned
       THEN decoder_thread' = "panicked" /\ UNCHANGED <<data, reader_closed>>
       ELSE decoder_thread' = "Ok" /\ data' = <<>> /\ reader_closed' = TRUE
    /\ UNCHANGED <<aborted, poisoned, processed_len>>
    /\ ThreadFrame

\* JpegStreamDecoder::new
InitDriver ==
    /\ StreamInit /\ Len(pl_data) = 1 /\ NoDecoder
    /\ NoScan /\ NoHandoffs /\ NoBlock /\ pge_from = NoPge /\ NoTables
    /\ decoder_handle = "Some" /\ decoder_thread = "running" /\ drv_pc = "idle"
    /\ drv_call = "none" /\ joins = 0 /\ n_calls = 0

DriverStep ==
    \/ \E k \in 0..1 : DrvDecode(k)
    \/ DrvFlush
    \/ DrvJoin

ThreadStep ==
    \/ \E k \in 1..MaxCalls : ThreadRead(k)
    \/ \E out \in {"Err", "panicked"}, poison \in BOOLEAN : ThreadEnd(out, poison)
    \/ ThreadAbort
    \/ \E panics \in BOOLEAN : ThreadClose(panics)

NextDriver == DriverStep \/ ThreadStep

SpecDriver == InitDriver /\ [][NextDriver]_vars

\* the decoder thread and a driver inside join keep running
FairSpecDriver == SpecDriver /\ WF_vars(ThreadStep) /\ WF_vars(DrvJoin)

\* ------------------------------------------------------------- claims
Count(s, b) == Cardinality({i \in 1..Len(s) : s[i] = b})

IsPrefix(s, t) == Len(s) <= Len(t) /\ s = Take(t, Len(s))

\* the bytes accepted by write so far, in write order
written == [i \in 1..nw |-> i]

\* the bytes the reader has not consumed yet, in stream order
Pending == data_slice(data_len) \o data

Flags == <<eof_written, aborted, reader_closed>>

\* C1: once decode has finished (abort, flush into grb, close) and the queue
\* is empty (nothing left for unread_data), every accepted byte has been
\* handed over exactly once: by a successful read (the final flush included),
\* by a successful consume, or by unread_data.  A byte that a peek returned
\* and consumed is counted as handed over too.
HandedOver == read_out \o skipped \o peeked \o recovered

C1_EveryByteAccountedOnce ==
    (r_pc = "done" /\ data = <<>>) => \A b \in 1..nw : Count(HandedOver, b) = 1

\* (C1, the half that holds) no accepted byte is ever handed over twice
C1_NoByteTwice == \A b \in 1..nw : Count(HandedOver, b) <= 1

\* C2: as long as the reader has skipped nothing with consume, the bytes
\* returned by its successful read / read_byte calls are a prefix of the
\* bytes written.
C2_ReadsArePrefixOfWrites == (skipped = <<>>) => IsPrefix(read_out, written)

\* C3: a successful peek / peek_byte leaves the unconsumed stream,
\* processed_len and the retained buffer as they were.
C3_PeekNeverConsumes ==
    [][(IsPeekOp(ev'.op) /\ ev'.res = "Ok") =>
        /\ Pending' = Pending
        /\ processed_len' = processed_len
        /\ retained_buffer' = retained_buffer]_vars

\* C4: eof_written and aborted never go back to false, and reader_closed
\* implies aborted, in every reachable state.
C4_FlagsMonotone ==
    /\ [](reader_closed => aborted)
    /\ [][(eof_written => eof_written') /\ (aborted => aborted')]_vars

C4_Witness == eof_written /\ aborted /\ reader_closed /\ nw > 0

\* C5: a write or write_eof issued when aborted or eof_written is set returns
\* ReaderAborted if aborted is set and EofWritten otherwise, and leaves the
\* queue and the flags unchanged.
C5_RefusedWrite ==
    [][(ev'.op \in {"write", "write_eof"} /\ w_pc = "run" /\ (aborted \/ eof_written)) =>
        /\ ev'.res = (IF aborted THEN "ReaderAborted" ELSE "EofWritten")
        /\ data' = data
        /\ Flags' = Flags]_vars

\* (C5 on a healthy mutex) the same, for a write that gets the lock
C5_RefusedWriteUnpoisoned ==
    [][(ev'.op \in {"write", "write_eof"} /\ w_pc = "run" /\ (aborted \/ eof_written)
            /\ ~poisoned) =>
        /\ ev'.res = (IF aborted THEN "ReaderAborted" ELSE "EofWritten")
        /\ data' = data
        /\ Flags' = Flags]_vars

\* C6: a ByteStream read / peek / consume fails with StreamClosed if
\* reader_closed; else, if the queue is empty or shorter than min_len, with
\* UnexpectedSigAbort(|Q|) if aborted and with UnexpectedEof(|Q|) if only
\* eof_written, the queue unchanged; and it succeeds if the queue is non-empty
\* and at least min_len long.
IsRawOp(op) == op \in {"io_read", "io_peek", "io_consume"}

MustWait(min_len) == data = <<>> \/ Len(data) < min_len

C6_ReadValidation ==
    [][(IsRawOp(ev'.op) /\ ev'.res # "wait") =>
        /\ reader_closed => ev'.res = "StreamClosed"
        /\ (~reader_closed /\ MustWait(ev'.arg) /\ aborted) =>
              (ev'.res = "UnexpectedSigAbort" /\ ev'.val = Len(data) /\ data' = data)
        /\ (~reader_closed /\ MustWait(ev'.arg) /\ ~aborted /\ eof_written) =>
              (ev'.res = "UnexpectedEof" /\ ev'.val = Len(data) /\ data' = data)
        /\ (~reader_closed /\ ~MustWait(ev'.arg)) => ev'.res = "Ok"]_vars

\* (C6, the validation alone) the errors are as stated, and a call whose
\* min_len is satisfied by a non-empty queue gets no InputError
C6_ValidationOnly ==
    [][(IsRawOp(ev'.op) /\ ev'.res # "wait" /\ ~poisoned) =>
        /\ reader_closed => ev'.res = "StreamClosed"
        /\ (~reader_closed /\ MustWait(ev'.arg) /\ aborted) =>
              (ev'.res = "UnexpectedSigAbort" /\ ev'.val = Len(data) /\ data' = data)
        /\ (~reader_closed /\ MustWait(ev'.arg) /\ ~aborted /\ eof_written) =>
              (ev'.res = "UnexpectedEof" /\ ev'.val = Len(data) /\ data' = data)
        /\ (~reader_closed /\ ~MustWait(ev'.arg)) => ev'.res \in {"Ok", "panic"}]_vars

\* C7: between the reader's calls, processed_len equals the number of bytes
\* consumed by successful read / read_byte / consume calls since the last
\* reset_processed_len.
C7_ProcessedLenIsConsumed == r_pc = "run" => processed_len = consumed_cnt

\* (C7, read as the bytes actually gone) processed_len equals the number of
\* bytes the reader's calls have taken out of the stream since the last reset
RemovedSinceReset == nw - Len(Pending) - Len(recovered) - reset_base

C7_ProcessedLenIsRemoved == r_pc = "run" => processed_len = RemovedSinceReset

\* (C7, the half that holds) processed_len only decreases at a reset
C7_ProcessedLenMonotone ==
    [][ev'.op # "reset_processed_len" => processed_len' >= processed_len]_vars

\* C8: between the reader's calls, the retained buffer holds exactly the bytes
\* consumed with keep = true since the last clear_retained_data, in stream
\* order.
C8_RetainedIsKept == r_pc = "run" => retained_buffer = kept

\* C9 (safety): wait_for_close returns Err without blocking when the stream is
\* not aborted, and returns Ok only when reader_closed is set.
C9_WaitForClose ==
    [][ev'.op = "wait_for_close" =>
        /\ (w_pc = "run" /\ ~aborted) => (ev'.res = "Err" /\ w_pc' = "run")
        /\ ev'.res = "Ok" => reader_closed]_vars

\* (C9 on a healthy mutex)
C9_WaitForCloseUnpoisoned ==
    [][(ev'.op = "wait_for_close" /\ ~poisoned) =>
        /\ (w_pc = "run" /\ ~aborted) => (ev'.res = "Err" /\ w_pc' = "run")
        /\ ev'.res = "Ok" => reader_closed]_vars

\* (C9, liveness) a writer blocked in wait_for_close returns once the reader
\* has closed the stream
C9_ReleasedByClose == (w_pc = "wait_close" /\ reader_closed) ~> (w_pc = "run")

\* C10: take_unread_data returns Some(the whole queue) and empties the queue
\* exactly when reader_closed is set and the queue is non-empty; otherwise it
\* returns None and leaves the queue unchanged.
C10_TakeUnreadData ==
    [][ev'.op = "take_unread_data" =>
        IF reader_closed /\ data # <<>>
        THEN ev'.res = "Some" /\ recovered' = data /\ data' = <<>>
        ELSE ev'.res = "None" /\ data' = data /\ recovered' = recovered]_vars

\* (C10 on a healthy mutex)
C10_TakeUnreadDataUnpoisoned ==
    [][(ev'.op = "take_unread_data" /\ ~poisoned) =>
        IF reader_closed /\ data # <<>>
        THEN ev'.res = "Some" /\ recovered' = data /\ data' = <<>>
        ELSE ev'.res = "None" /\ data' = data /\ recovered' = recovered]_vars

\* C11: under fair scheduling a reader blocked in read / peek / consume
\* returns once the queue holds at least the min_len bytes it waits for, and
\* returns once write_eof has been called.
C11_ReaderReleased ==
    /\ (r_pc = "wait" /\ Len(data) >= r_call.min_len) ~> (r_pc # "wait")
    /\ (r_pc = "wait" /\ eof_written) ~> (r_pc # "wait")

\* (C11, the half that holds) a blocked reader returns once write_eof has been
\* called
C11_ReleasedByEof == (r_pc = "wait" /\ eof_written) ~> (r_pc # "wait")

\* (C11, the half that holds) a blocked reader returns once the queue holds
\* the target_len it published
C11_ReleasedByTargetLen ==
    (r_pc = "wait" /\ Len(data) >= r_call.buflen) ~> (r_pc # "wait")

\* C12: IoStream::read / peek called with min_len <= |Q| on a non-empty queue
\* returns count = min(buf.len(), |Q|), hands over the first count bytes of the
\* queue, and read removes exactly those bytes while peek leaves the queue
\* unchanged.
C12_ReadCopiesAndRemoves ==
    [][(ev'.op \in {"io_read", "io_peek"} /\ r_pc = "run" /\ ~poisoned /\ ~reader_closed
            /\ data # <<>> /\ ev'.arg <= Len(data)) =>
        LET count == Min(ev'.len, Len(data)) IN
        /\ ev'.res = "Ok"
        /\ ev'.val = count
        /\ ev'.op = "io_read" =>
              (data' = Drop(data, count) /\ read_out' = read_out \o Take(data, count))
        /\ ev'.op = "io_peek" => data' = data]_vars

\* (C12, the part that holds) the same for a queue at least as long as the
\* destination buffer
C12_ReadFullBuffer ==
    [][(ev'.op \in {"io_read", "io_peek"} /\ r_pc = "run" /\ ~poisoned /\ ~reader_closed
            /\ data # <<>> /\ ev'.arg <= Len(data) /\ ev'.len <= Len(data)) =>
        /\ ev'.res = "Ok"
        /\ ev'.val = ev'.len
        /\ ev'.op = "io_read" =>
              (data' = Drop(data, ev'.len) /\ read_out' = read_out \o Take(data, ev'.len))
        /\ ev'.op = "io_peek" => data' = data]_vars


\* ------------------------------------------------- claims on the decoder
Returned == d_pc = "ret"

\* C13: an input that is only SOI followed by EOI is rejected: decode
\* returns Malformatted("incomplete header").
C13_SoiEoiIncompleteHeader ==
    (Returned /\ seen = <<"EOI">>) => result = Malformatted("incomplete header")

\* (C13, what the code does) after SOI, EOI decode never returns an error:
\* it gets to frame.unwrap() on no frame, or fails earlier in the flush
C13_SoiEoiPanics ==
    (Returned /\ seen = <<"EOI">>) => result.kind = "panic"

\* C14: when the stream ends before any frame header has been parsed,
\* decode returns Malformatted("incomplete header"), with header_only false
\* as well as true.
EndedBeforeFrame == Returned /\ frame = 0 /\ seen # <<>> /\ seen[Len(seen)] = "EOF"

C14_EofBeforeFrame ==
    EndedBeforeFrame => result = Malformatted("incomplete header")

\* (C14, the half that holds) with header_only the message is
\* "incomplete header"
C14_EofBeforeFrameHeaderOnly ==
    (EndedBeforeFrame /\ header_only) => result = Malformatted("incomplete header")

\* C15: when the stream ends in the first block of the first scan (with
\* start_byte already reached), decode returns Ok(Jpeg), the scan is kept
\* with truncation Some((0, 0, 0)), without coefficients when start_byte > 0,
\* and grb holds the scan's raw header followed by the entropy bytes read.
EndedInFirstBlock ==
    /\ Returned /\ eof_at = <<0, 0, 0>> /\ n_scan_processed = 0
    /\ result # Malformatted("EOF encountered before start_byte")

C15_TruncatedFirstBlock ==
    EndedInFirstBlock =>
        /\ result.kind = "Ok"
        /\ Len(scans) = 1 /\ scans[1].truncation = <<0, 0, 0>>
        /\ format.grb = <<"raw_header", "view_buffer">>

\* (C15, what the code does) the hand-off list is empty after the pop, so
\* the end of the stream there is always reported as Malformatted
C15_FirstBlockEofIsMalformatted ==
    (Returned /\ eof_at = <<0, 0, 0>> /\ n_scan_processed = 0) =>
        /\ result.kind = "Malformatted"
        /\ format.grb = <<>>
        /\ \A i \in 1..Len(scans) : scans[i].truncation = <<>>


\* ------------------------------------- claims on the end of a full decode
IsSuffix(t, q) == Len(t) <= Len(q) /\ SubSeq(q, Len(q) - Len(t) + 1, Len(q)) = t

\* C16: after a full decode that ended at EOI, format.grb is exactly the
\* bytes that were still unconsumed when the decoder aborted the stream:
\* no earlier byte is in grb, and every trailing byte written before the
\* abort is in grb, in order.
C16_GrbIsTail == r_pc = "done" => grb = tail

\* (C16, first half) grb holds no byte that decode had read before the abort
C16_NoEarlierBytes ==
    r_pc = "done" => \A i \in 1..Len(grb) : \E j \in 1..Len(tail) : grb[i] = tail[j]

\* (C16, second half) the trailing bytes are the end of grb
C16_TailInGrb == r_pc = "done" => IsSuffix(tail, grb)

\* (C16, what the code does) grb is the retained bytes followed by as many
\* of the unconsumed bytes as the queue, not the pre-load buffer, was long
C16_GrbIsRetainedAndFlushed ==
    r_pc = "done" => grb = retained_buffer \o Take(tail, flush_len)

\* C17: whatever the interleaving of writer and decoder, the finalization
\* of decode completes (no panic in the flush), and once the decoder has
\* closed the stream the queue is empty and every trailing byte accepted by
\* write is in grb.
C17_DrainedAtClose ==
    /\ ~(r_pc = "panicked" /\ ev.op = "fin_read")
    /\ r_pc = "done" =>
        /\ data = <<>>
        /\ \A i \in 1..Len(tail) : \E j \in 1..Len(grb) : grb[j] = tail[i]

\* (C17, first part) the flush never panics
C17_FlushNeverPanics == ~(r_pc = "panicked" /\ ev.op = "fin_read")


\* ------------------------------------------ claims on the marker loop
\* the step in which the marker loop dispatches marker m
Dispatches(m) == seen' = Append(seen, m)

\* the marker dispatched last, "SOI" before the first one
LastMarker == IF seen = <<>> THEN "SOI" ELSE seen[Len(seen)]

\* C18: a DNL marker is answered with Unsupported(DNL) exactly when the
\* marker before it was SOS and exactly one scan has been processed, and
\* with Malformatted in every other position; decode never returns Ok once
\* a DNL marker has been dispatched.
C18_Dnl ==
    /\ [][Dispatches("DNL") =>
            /\ d_pc' = "ret"
            /\ result' = IF LastMarker = "SOS" /\ Count(seen, "SOS") = 1
                         THEN Unsupported("DNL")
                         ELSE Malformatted("DNL is only allowed immediately after the first scan")]_vars
    /\ []((\E i \in 1..Len(seen) : seen[i] = "DNL") => result.kind # "Ok")

\* a DNL right after the first scan has been answered
C18_Witness ==
    /\ Returned /\ LastMarker = "DNL" /\ result = Unsupported("DNL")
    /\ Count(seen, "SOS") = 1

\* a DNL after a second scan has been answered with Malformatted
C18_WitnessSecondScan ==
    /\ Returned /\ LastMarker = "DNL" /\ result.kind = "Malformatted"
    /\ Count(seen, "SOS") = 2 /\ seen[Len(seen) - 1] = "SOS"

\* C19: a RSTn marker met by the marker loop is ignored (the loop goes on,
\* nothing but previous_marker changes) only when the marker dispatched
\* before it was SOS; anywhere else, a second consecutive RSTn included,
\* decode returns Malformatted.
C19_Rst ==
    [][Dispatches("RST") =>
        IF LastMarker = "SOS"
        THEN /\ d_pc' = "loop" /\ result' = result
             /\ <<frame, scans, format, n_scan_processed>>' =
                    <<frame, scans, format, n_scan_processed>>
        ELSE d_pc' = "ret" /\ result'.kind = "Malformatted"]_vars

\* a RSTn was ignored after a scan and the RSTn after it was refused
C19_Witness ==
    /\ Returned /\ Len(seen) >= 3 /\ result.kind = "Malformatted"
    /\ seen[Len(seen)] = "RST" /\ seen[Len(seen) - 1] = "RST"
    /\ seen[Len(seen) - 2] = "SOS"

\* C20: at most one frame is ever installed: the frame changes only from
\* none to the one a SOF arm has parsed and validated, in a step that goes
\* on with the loop; a SOF marker met with a frame installed yields
\* Unsupported(Hierarchical); an SOS marker met with no frame installed
\* yields Malformatted and appends no scan.
C20_FrameOrdering ==
    /\ [][frame' # frame => frame = 0 /\ Dispatches("SOF") /\ d_pc' = "loop"]_vars
    /\ [][(Dispatches("SOF") /\ frame # 0) =>
            d_pc' = "ret" /\ result' = Unsupported("Hierarchical")]_vars
    /\ [][(Dispatches("SOS") /\ frame = 0) =>
            d_pc' = "ret" /\ result'.kind = "Malformatted" /\ scans' = scans]_vars

\* a second SOF has been refused and the first frame is still installed
C20_Witness ==
    /\ Returned /\ result = Unsupported("Hierarchical")
    /\ Count(seen, "SOF") = 2 /\ LastMarker = "SOF"
    /\ frame # 0 /\ seen[frame] = "SOF" /\ frame < Len(seen)

\* an SOS before any frame has been refused
C20_WitnessScanBeforeFrame ==
    /\ Returned /\ LastMarker = "SOS" /\ frame = 0 /\ scans = <<>>
    /\ result = Malformatted("scan encountered before frame")

\* a SOF that failed validation has left no frame
C20_WitnessFailedSof ==
    Returned /\ LastMarker = "SOF" /\ frame = 0 /\ result.kind = "Unsupported"


\* ---------------------------------------------- claims on decode_scan
\* the step in which every block of the MCU (mcu_y, mcu_x) has decoded
McuDecoded == s_pc = "mcu" /\ Len(decoded') = Len(decoded) + Len(McuBlocks(mcu_y, mcu_x))

\* the MCUs of the scan decoded before this one, and the MCUs of the scan
McusBefore == mcu_y * size_in_mcu.width + mcu_x

McusInScan == size_in_mcu.width * size_in_mcu.height

\* a RSTn is due after the MCU being decoded
RstDue ==
    /\ restart_interval > 0
    /\ (McusBefore + 1) % restart_interval = 0
    /\ McusBefore + 1 < McusInScan

\* C21: in every scan, interleaved or not, with any sampling factors, a RSTn
\* is read after each group of restart_interval MCUs of the scan except after
\* the last MCU of the scan, and at no other point (and the restart handling
\* itself does not fail).
C21_RestartPlacement ==
    [][McuDecoded =>
        /\ (rst_reads' # rst_reads) <=> RstDue
        /\ s_result'.kind # "panic"]_vars

\* (C21, the part that holds) the placement is right in every scan whose loop
\* runs over the frame's MCU grid
C21_PlacementOnFrameGrid ==
    [][(McuDecoded /\ size_in_mcu = frame_size_in_mcu) =>
        /\ (rst_reads' # rst_reads) <=> RstDue
        /\ s_result'.kind # "panic"]_vars


\* the step in which read_rst is called, and the call
ReadsRst == rst_reads' # rst_reads

LastRst == rst_reads'[Len(rst_reads')]

\* C22: after every successful resynchronization all DC predictors are 0,
\* eob_run is 0, no bits are buffered, the countdown is restart_interval and
\* the expected index has advanced by one modulo 8; the k-th call of
\* read_rst in a scan (k from 0) expects RST(k mod 8), and a marker with
\* another index makes decode_scan return Malformatted.
C22_Resync ==
    /\ [][(ReadsRst /\ LastRst.found = "expected") =>
            /\ s_pc' # "ret"
            /\ \A i \in 1..MAX_COMPONENTS : dc_predictors'[i] = 0
            /\ eob_run' = 0 /\ bits' = 0
            /\ n_mcu_left_until_restart' = restart_interval
            /\ expected_rst_num' = (expected_rst_num + 1) % 8]_vars
    /\ [][(ReadsRst /\ LastRst.found = "other") =>
            s_pc' = "ret" /\ s_result'.kind = "Malformatted"]_vars
    /\ [](\A k \in 1..Len(rst_reads) : rst_reads[k].expected = (k - 1) % 8)

\* the ninth resynchronization of a scan has succeeded, against RST0 again
C22_Witness ==
    /\ Len(rst_reads) = 9 /\ rst_reads[9].found = "expected" /\ rst_reads[9].expected = 0
    /\ s_pc # "ret" /\ expected_rst_num = 1


\* the sampling factors of scan component ci (from 0) as the loop uses them:
\* a non-interleaved scan takes one block per MCU
LoopH(ci) == IF is_interleaved THEN components[ci + 1].horizontal_sampling_factor ELSE 1

LoopV(ci) == IF is_interleaved THEN components[ci + 1].vertical_sampling_factor ELSE 1

RECURSIVE SumBlocksPerMcu(_)
SumBlocksPerMcu(n) ==
    IF n = 0 THEN 0
    ELSE components[n].vertical_sampling_factor * components[n].horizontal_sampling_factor
         + SumBlocksPerMcu(n - 1)

\* the number of the MCU (row-major) that holds block b
McuOf(b) == (b[2] \div LoopV(b[1])) * size_in_mcu.width + (b[3] \div LoopH(b[1]))

\* C23: when a scan has decoded to completion, the number of block decodes
\* is size_in_mcu.height * size_in_mcu.width * sum of Vi * Hi for a scan of
\* several components and size_in_block.height * size_in_block.width for a
\* scan of one; every block position is decoded exactly once, MCU after MCU
\* in row-major order, and within an MCU component after component.
C23_BlocksOfScan ==
    s_pc = "done" =>
        /\ Len(decoded) =
              IF Len(components) > 1
              THEN frame_size_in_mcu.height * frame_size_in_mcu.width
                   * SumBlocksPerMcu(Len(components))
              ELSE components[1].size_in_block.height * components[1].size_in_block.width
        /\ \A i, j \in 1..Len(decoded) : i < j =>
              /\ decoded[i] # decoded[j]
              /\ McuOf(decoded[i]) <= McuOf(decoded[j])
              /\ McuOf(decoded[i]) = McuOf(decoded[j]) => decoded[i][1] <= decoded[j][1]
        /\ \A i \in 1..Len(decoded) :
              /\ decoded[i][1] \in 0..(Len(components) - 1)
              /\ decoded[i][2] \in 0..(size_in_mcu.height * LoopV(decoded[i][1]) - 1)
              /\ decoded[i][3] \in 0..(size_in_mcu.width * LoopH(decoded[i][1]) - 1)

\* an interleaved scan of 2 x 2 MCUs with a luma component sampled (2, 2)
\* has decoded to completion
C23_Witness ==
    /\ s_pc = "done" /\ Len(components) = 2
    /\ components[1].horizontal_sampling_factor = 2
    /\ components[1].vertical_sampling_factor = 2
    /\ frame_size_in_mcu = [width |-> 2, height |-> 2]
    /\ Len(decoded) = 20

\* a non-interleaved scan of a component sampled (2, 2) has decoded to
\* completion
C23_WitnessNonInterleaved ==
    /\ s_pc = "done" /\ Len(components) = 1
    /\ components[1].horizontal_sampling_factor = 2
    /\ components[1].size_in_block = [width |-> 4, height |-> 3]
    /\ Len(decoded) = 12


\* ------------------------------------------------ claims on header-only mode
\* the marker loop stands in the entropy-coded data of a scan: after a SOS,
\* with nothing but RSTn markers dispatched since
InEntropyData ==
    \E j \in 1..Len(seen) :
        seen[j] = "SOS" /\ \A k \in (j + 1)..Len(seen) : seen[k] = "RST"

\* C24: with header_only = true, start_byte is 0 and no scan is entropy
\* decoded; the entropy-coded data of a well-formed JPEG, with its stuffed
\* FF 00 pairs and its RSTn markers, is passed over, so that decode returns Ok
\* with the frame, one scan per SOS and no format.
C24_HeaderOnly ==
    /\ [](header_only => start_byte = 0 /\ d_pc # "scan"
                         /\ format = [handoff |-> 0, grb |-> <<>>])
    /\ []((header_only /\ Returned /\ result.kind = "Ok") =>
              frame # 0 /\ Len(scans) = Count(seen, "SOS"))
    /\ [][(header_only /\ InEntropyData /\ (Dispatches("RST") \/ Dispatches("FF00"))) =>
              d_pc' = "loop"]_vars

\* (C24, the part that holds) no scan is decoded, no format is built, and an
\* Ok result carries the frame and one scan per SOS
C24_NoScanDecoded ==
    /\ header_only => start_byte = 0 /\ d_pc # "scan" /\ format = [handoff |-> 0, grb |-> <<>>]
    /\ (header_only /\ Returned /\ result.kind = "Ok") =>
           frame # 0 /\ Len(scans) = Count(seen, "SOS")

\* (C24, the restart markers) a second RSTn in a scan's data ends the decode
C24_SecondRstPassedOver ==
    [][(header_only /\ InEntropyData /\ Dispatches("RST")) => d_pc' = "loop"]_vars


\* --------------------------------------------- claims on the hand-off bytes
\* the record at position i of bytes laid out as a count byte and 20-byte
\* little-endian records
RecordAt(b, i) ==
    LET o == 1 + BYTES_PER_HANDOFF_EXT * (i - 1)
        u16(k) == b[o + k] + U8 * b[o + k + 1]
    IN [start_scan |-> u16(1), end_scan |-> u16(3), mcu_y_start |-> u16(5),
        segment_size |-> u16(7) + U16 * u16(9),
        overhang_byte |-> b[o + 11], n_overhang_bit |-> b[o + 12],
        last_dc |-> <<u16(13), u16(15), u16(17), u16(19)>>]

\* the list read back from the bytes: as many records as the count byte says
Deserialize(b) == [i \in 1..b[1] |-> RecordAt(b, i)]

\* C25: serialize of a list of n records produces 1 + 20*n bytes whose first
\* byte is the record count n, followed by the n little-endian records, so
\* that the list is recovered exactly from the bytes, for every n a decode can
\* produce, more than 255 included.
C25_SerializeRoundTrip ==
    h_pc = "done" =>
        /\ Len(serialized) = 1 + BYTES_PER_HANDOFF_EXT * Len(handoffs)
        /\ serialized[1] = Len(handoffs)
        /\ Deserialize(serialized) = handoffs

\* (C25, the part that holds) the length is 1 + 20*n, the first byte is n
\* modulo 256, and the records are laid out as stated
C25_Layout ==
    h_pc = "done" =>
        /\ Len(serialized) = 1 + BYTES_PER_HANDOFF_EXT * Len(handoffs)
        /\ serialized[1] = Len(handoffs) % U8
        /\ \A i \in 1..Len(handoffs) : RecordAt(serialized, i) = handoffs[i]


\* ------------------------------------------------ claims on the end of input
\* the step on which the input ends under the decoder
EofStep == seen' = Append(seen, "EOF")

\* C26: with header_only = false, an EOF reached while processed_len <
\* start_byte makes decode return Malformatted("EOF encountered before
\* start_byte"), and otherwise an EOF reached while no hand-off is recorded
\* makes decode return Malformatted("no/insufficient entropy encoded data");
\* so when decode goes on to return Ok after an EOF, format.handoff is not
\* empty and the scans before the last one are as they were.
C26_EofReclassified ==
    [][(~header_only /\ EofStep) =>
          /\ processed_len' < start_byte' =>
                 /\ d_pc' = "ret"
                 /\ result' = Malformatted("EOF encountered before start_byte")
          /\ (processed_len' >= start_byte' /\ format'.handoff = 0) =>
                 /\ d_pc' = "ret"
                 /\ result' = Malformatted("no/insufficient entropy encoded data")
          /\ d_pc' = "final" =>
                 /\ format'.handoff > 0
                 /\ Len(scans') \in {Len(scans), Len(scans) - 1}
                 /\ \A i \in 1..(Len(scans) - 1) : scans'[i] = scans[i]]_vars

\* (C26) an Ok returned after an EOF comes with a hand-off
C26_OkAfterEofHasHandoff ==
    (~header_only /\ Returned /\ result.kind = "Ok" /\ LastMarker = "EOF") =>
        format.handoff > 0

\* decode has returned Ok for an input that ended in its second scan, asked
\* with a start_byte that was crossed on the way
C26_Witness ==
    /\ ~header_only /\ Returned /\ result.kind = "Ok" /\ LastMarker = "EOF"
    /\ Count(seen, "SOS") = 2 /\ Len(scans) >= 1 /\ format.handoff > 0

\* decode has returned each of the two messages
C26_WitnessBeforeStartByte ==
    /\ Returned /\ LastMarker = "EOF" /\ processed_len > 0
    /\ result = Malformatted("EOF encountered before start_byte")

C26_WitnessNoHandoff ==
    /\ Returned /\ LastMarker = "EOF" /\ start_byte > 0 /\ processed_len >= start_byte
    /\ result = Malformatted("no/insufficient entropy encoded data")


\* ------------------------------------------ claims on the finalization
\* the finalization of decode stands after its abort() and before its close()
Draining == r_pc \in {"fin_len", "fin_read", "fin_close"}

\* C27: when the marker loop has ended, decode performs abort(), then
\* drains the retained bytes and every still-queued byte into format.grb,
\* then close(), in that order; the drain never fails, for any number of
\* queued bytes and any pre-load buffer size; and when decode is done the
\* stream has aborted = true and reader_closed = true.
C27_FinalizationLifecycle ==
    /\ Draining => aborted
    /\ ~(r_pc = "panicked" /\ ev.op \in {"fin_len", "fin_read"})
    /\ r_pc = "done" => aborted /\ reader_closed /\ Len(grb) = Len(retained_buffer) + flush_len

\* (C27, the part that holds) the order abort, drain, close, and the state of
\* the stream once decode is done
C27_AbortDrainClose ==
    /\ Draining => aborted
    /\ r_pc = "done" => aborted /\ reader_closed /\ Len(grb) = Len(retained_buffer) + flush_len


\* ------------------------------------------ claims on the DC coefficient
\* a block decode has acted
BlockDecoded == b_pc = "block" /\ n_blocks' = n_blocks + 1 /\ b_result'.kind # "EOF"

InI16(x) == x >= -(I16_MAX + 1) /\ x <= I16_MAX

\* C28: a decoded DC category of 0..=11 is accepted and a category >= 12
\* yields Malformatted("invalid DC difference magnitude category") without
\* changing the predictor; the accepted difference is added to the 16-bit
\* signed predictor modulo 2^16, never failing, and coefficient 0 is the new
\* predictor shifted left by Al (within 16 bits).
C28_DcDecode ==
    [][BlockDecoded =>
          IF dc_value' <= 11
          THEN /\ b_result'.kind = "Ok"
               /\ InI16(dc_predictor') /\ InI16(coefficients_0')
               /\ (dc_predictor' - (dc_predictor + dc_diff')) % 65536 = 0
               /\ (coefficients_0' - dc_predictor' * 2^successive_approximation_low)
                      % 65536 = 0
          ELSE /\ b_result' = Malformatted("invalid DC difference magnitude category")
               /\ dc_predictor' = dc_predictor /\ coefficients_0' = coefficients_0]_vars

\* a difference of category 11 has been added past the end of i16, and the
\* predictor has wrapped around
C28_Witness ==
    /\ b_result.kind = "Ok" /\ dc_value = 11 /\ dc_diff = 2047
    /\ dc_predictor = -(I16_MAX + 1) + 2046 /\ successive_approximation_low = 1

C28_WitnessCategory12 ==
    /\ b_pc = "ret" /\ dc_value = 12 /\ n_blocks = 1 /\ dc_predictor = I16_MAX


\* ------------------------------------------ claims on the hand-off list
\* decode_scan stands at the top of an MCU row
RowTop == d_pc = "scan" /\ mcu_y < height

EofInScan == d_pc = "scan" /\ EofStep /\ processed_len' >= start_byte'

\* the hand-offs on the list once the top of the row has been passed
HandoffsAtBlock == IF start_byte' = 0 THEN format.handoff + 1 ELSE format.handoff

\* C30: when an EOF raised in a scan's entropy data (in a block decode or in
\* the read of a restart marker) is propagated with processed_len >=
\* start_byte, scan.truncation is set to (scan_component_index, y, x) of the
\* failing block and the huffman buffer is appended to format.grb exactly
\* once; if the failing block is the first block of the scan, the last
\* hand-off is popped as well and scan.raw_header stands in grb before that
\* buffer.
C30_TruncationBookkeeping ==
    [][EofInScan =>
          /\ format'.grb = format.grb \o (IF eof_at' = <<0, 0, 0>>
                                          THEN <<"raw_header", "view_buffer">>
                                          ELSE <<"view_buffer">>)
          /\ Len(scans') = Len(scans) =>
                 /\ scans'[Len(scans)].truncation # <<>>
                 /\ eof_at' # <<>> => scans'[Len(scans)].truncation = eof_at'
          /\ eof_at' = <<0, 0, 0>> => format'.handoff = HandoffsAtBlock - 1]_vars

\* (C30, the part that holds) for a block that is not the first of its MCU
\* row, the buffer is appended once and the truncation is set
C30_InsideRow ==
    [][(EofInScan /\ eof_at' # <<>> /\ ~(eof_at'[1] = 0 /\ eof_at'[3] = 0)) =>
          /\ format'.grb = format.grb \o <<"view_buffer">>
          /\ Len(scans') = Len(scans) => scans'[Len(scans)].truncation = eof_at'
          /\ format'.handoff = HandoffsAtBlock]_vars

\* (C30, the restart marker) the truncation is set when read_rst meets the end
C30_RstEofSetsTruncation ==
    [][(EofInScan /\ eof_at' = <<>> /\ Len(scans') = Len(scans)) =>
          scans'[Len(scans)].truncation # <<>>]_vars

\* (C30, first block of a later row) the buffer is appended once
C30_RowStartAppendsOnce ==
    [][(EofInScan /\ eof_at' # <<>> /\ eof_at'[1] = 0 /\ eof_at'[3] = 0 /\ eof_at'[2] > 0
        /\ d_pc' = "final") =>
          format'.grb = format.grb \o <<"view_buffer">>]_vars


\* ------------------------------------------ claims on the PGE slice
\* C31: whenever an SOS is handled in PGE mode (0 < start_byte <
\* processed_len), the start of the slice, retained.len - processed_len +
\* start_byte, is computed without unsigned underflow and lies in
\* [0, retained.len], whatever the markers before it, a second or later scan
\* included, whose retained data was cleared at an earlier SOS while
\* processed_len kept growing.
C31_PgeSliceInRange ==
    pge_from.kind # "none" =>
        /\ pge_from.kind = "index" /\ ~pge_from.underflow
        /\ pge_from.at >= 0 /\ pge_from.at <= pge_from.len

\* (C31, the first scan) at the first SOS every byte read is retained, and
\* the slice starts at start_byte
C31_FirstScan ==
    [][(d_pc = "loop" /\ n_scan_processed = 0 /\ pge_from'.kind # "none") =>
          /\ pge_from'.kind = "index" /\ ~pge_from'.underflow
          /\ pge_from'.at = start_byte /\ pge_from'.at < pge_from'.len]_vars


\* ------------------------------------------ claims on the tables
\* a block of the scan is about to be decoded: the verification has passed
VerificationPassed == d_pc = "scan"

\* C32: if decode_scan's verification passes, no block decode of the scan
\* dereferences an uninstalled Huffman table, DC-only scans whose AC table
\* is uninstalled and AC-only scans whose DC table is uninstalled included;
\* otherwise decode returns Malformatted before any block is decoded.
C32_VerifiedTablesSuffice ==
    /\ result.kind # "panic"
    /\ VerificationPassed =>
           /\ quantization_tables[scan_info.quantization_table_index]
           /\ scan_info.spectral_selection.start = 0 =>
                  dc_huffman_tables[scan_info.dc_table_index]
           /\ scan_info.spectral_selection.end > 1 =>
                  ac_huffman_tables[scan_info.ac_table_index]

\* (C32, the part that holds) the verification is as stated, and a scan of
\* the whole band with Ah = 0 finds both its tables
C32_Verification ==
    /\ VerificationPassed =>
           /\ quantization_tables[scan_info.quantization_table_index]
           /\ scan_info.spectral_selection.start = 0 =>
                  dc_huffman_tables[scan_info.dc_table_index]
           /\ scan_info.spectral_selection.end > 1 =>
                  ac_huffman_tables[scan_info.ac_table_index]
    /\ (result.kind = "panic" /\ scan_info.successive_approximation_high = 0) =>
           ~(scan_info.spectral_selection.start = 0 /\ scan_info.spectral_selection.end > 1)


\* C35: once an APP0 segment has identified the stream as MJPEG, is_mjpeg
\* stays true for the rest of the decode whatever APPn segments follow, so
\* that every later scan has the default MJPEG Huffman tables filled in
\* before its tables are verified.
C35_MjpegSticky ==
    /\ [](mjpeg_seen => is_mjpeg)
    /\ [][(mjpeg_seen /\ d_pc = "loop" /\ scan_info' # scan_info
           /\ quantization_tables[scan_info'.quantization_table_index]) =>
              /\ dc_huffman_tables'[scan_info'.dc_table_index]
              /\ ac_huffman_tables'[scan_info'.ac_table_index]
              /\ d_pc' = "scan"]_vars

\* (C35, the part that holds) while is_mjpeg is true, a scan has its tables
\* filled in before the verification, which then passes
C35_FilledWhileMjpeg ==
    [][(is_mjpeg /\ d_pc = "loop" /\ scan_info' # scan_info
        /\ quantization_tables[scan_info'.quantization_table_index]) =>
           /\ dc_huffman_tables'[scan_info'.dc_table_index]
           /\ ac_huffman_tables'[scan_info'.ac_table_index]
           /\ d_pc' = "scan"]_vars


\* ------------------------------------------ claims on the restart countdown
\* C33: during any scan with restart_interval > 0, the countdown
\* n_mcu_left_until_restart is in 1..=restart_interval whenever it is about
\* to be decremented, so that it never goes below zero, for interleaved
\* scans and for non-interleaved scans whose component block grid differs
\* from the frame's MCU grid.
C33_CountdownBounds ==
    /\ (s_pc = "mcu" /\ restart_interval > 0) =>
           n_mcu_left_until_restart >= 1 /\ n_mcu_left_until_restart <= restart_interval
    /\ s_result # [kind |-> "panic", msg |-> "subtract with overflow"]

\* (C33, the part that holds) on a scan whose grid is the frame's MCU grid
\* the countdown stays in 1..=restart_interval
C33_BoundsOnFrameGrid ==
    (s_pc = "mcu" /\ restart_interval > 0 /\ size_in_mcu = frame_size_in_mcu) =>
        n_mcu_left_until_restart >= 1 /\ n_mcu_left_until_restart <= restart_interval


\* ------------------------------------------ claims on failed reads
\* InputStream::read or InputStream::consume returns an error on this step
ReadOrConsumeFails ==
    /\ r_pc \in {"run", "wait"} /\ r_pc' = "run" /\ r_call' = NoCall
    /\ ev'.op \in {"read", "consume"}
    /\ ev'.res \in {"UnexpectedEof", "UnexpectedSigAbort", "StreamClosed"}
    /\ (r_pc = "wait" => r_call.op = ev'.op)

\* the reader-local state when the call was made
OldWriteOffset == IF r_pc = "wait" THEN r_call.old_w ELSE write_offset

OldReadOffset == IF r_pc = "wait" THEN r_call.old_r ELSE read_offset

OldRetained ==
    IF r_pc = "wait" THEN Take(retained_buffer, r_call.old_ret) ELSE retained_buffer

\* C34: if InputStream.read(buf, fill = true, keep) or InputStream.consume(n,
\* keep) returns an error, the bytes waiting in the pre-load buffer, the
\* retained buffer and processed_len are as they were before the call, for
\* keep = true and keep = false: no pre-loaded byte is dropped by the failed
\* call.
C34_ErrorAtomicity ==
    [][ReadOrConsumeFails =>
          /\ pl_data' = pl_data
          /\ SubSeq(pl_data', read_offset' + 1, write_offset')
                 = SubSeq(pl_data, OldReadOffset + 1, OldWriteOffset)
          /\ retained_buffer' = OldRetained
          /\ processed_len' = processed_len]_vars

\* (C34, the part that holds) processed_len and the pre-load storage never
\* move on an error, and a consume with keep = true that fails after waiting
\* restores the pre-load bytes and the retained buffer
C34_ConsumeKeepRestores ==
    [][ReadOrConsumeFails =>
          /\ processed_len' = processed_len /\ pl_data' = pl_data
          /\ (r_pc = "wait" /\ r_call.kind = "consume" /\ r_call.keep) =>
                 /\ write_offset' = r_call.old_w /\ read_offset' = r_call.old_r
                 /\ retained_buffer' = OldRetained]_vars

\* a consume with keep = true fails after waiting with bytes pre-loaded
C34_Witness ==
    /\ r_pc = "wait" /\ r_call.kind = "consume" /\ r_call.keep
    /\ r_call.old_w > r_call.old_r /\ eof_written


\* ------------------------------------------ claims on the driver
\* C36: for every sequence of decode calls followed by flush, each call
\* returns a result (a panic of the decoder thread aside, no call panics): a
\* decode whose write fails returns the decoder thread's result, and a later
\* decode or flush does not fail because the join handle was already taken.
C36_EveryCallReturns == drv_pc = "panicked" => decoder_thread = "panicked" \/ poisoned

\* (C36, the part that holds) the thread is joined at most once, only by the
\* call that took the handle, and a call that comes back from finish returns
\* the decoder thread's result
C36_JoinedAtMostOnce ==
    /\ [](joins <= 1 /\ (drv_pc = "join" => decoder_handle = "None" /\ joins = 0))
    /\ [][drv_pc = "join" /\ drv_pc' \in {"idle", "flushed"} =>
            /\ ev'.op = drv_call /\ ev'.res = decoder_thread
            /\ decoder_thread \in {"Ok", "Err"}]_vars

\* (C36, the part that holds) once a call is inside join the decoder thread
\* ends and the call comes back, with a result or with the thread's panic
C36_JoinEnds == (drv_pc = "join") ~> (drv_pc \in {"idle", "flushed", "panicked"})

\* a decode whose write failed has returned the thread's result
C36_DecodeReturnedResult ==
    /\ drv_pc = "idle" /\ decoder_handle = "None" /\ joins = 1
    /\ ev.op = "decode" /\ ev.res = "Ok" /\ decoder_thread = "Ok"

====
